---- MODULE Spec2Model ----
(***************************************************************************)
(* Verification model of the conversion-prediction pipeline                *)
(* (src/conversion_prediction/run.py, src/conversion_prediction/utils/     *)
(* config.py).  Each component of ConversionPredictionModel is a state     *)
(* machine of its own over the variables it owns:                          *)
(*   SpecAlign   align_prediction_frame_with_train_columns                 *)
(*   SpecLoad    the artifact files and load_model_related_constructs      *)
(*   SpecBuild   get_user_profiles_by_date and its two enrichment joins    *)
(*   SpecSplit   the train/test split of create_train_test_transformations *)
(*   SpecEncode  rare-category recoding, category lists, Unknown encoding  *)
(*   SpecDummy   one categorical column encoded against a stored list       *)
(*   SpecNorm    introduce_row_wise_normalized_features                     *)
(*   SpecOutcome create_outcome_frame                                       *)
(*   SpecRetain  artifact_handler as the two pipelines call it              *)
(*   SpecPredict train_model, the saved bundle and batch_predict            *)
(*   SpecEvents  run() of aggregate/utils/conversion_events.py              *)
(*   SpecFill    the outcome filling and row filter of create_feature_frame *)
(* A data frame is a sequence of column names plus per-row values; a       *)
(* pandas Series is a sequence of values.                                  *)
(***************************************************************************)
EXTENDS Integers, Sequences, FiniteSets, Bags, TLC

VARIABLES
    \* --- ColumnAligner
    prediction_data,        \* self.prediction_data: sequence of [name, val] columns
    variable_importances,   \* self.variable_importances.index: sequence of names
    pcAlign,                \* "ready" | "aligned" | "KeyError"
    \* --- ArtifactStore
    model_files,            \* the files of path_to_model_files: [kind, date, run]
    model_date,             \* self.model_date of the training run in progress
    pcTrain,                \* "idle", the artifact kind the run writes next, "done" or "failed"
    runs,                   \* training runs started so far
    scoring_date,           \* self.scoring_date.date()
    last_model_related_files, \* kind -> resolved date (a dict, filled kind by kind)
    loaded,                 \* kind -> the file loaded into the object
    loadStatus,             \* "none" | "loaded" | "IndexError" | "ValueError"
    \* --- FeatureFrameBuilder
    user_profiles,          \* self.user_profiles: [cols, rows], a row maps column -> value
    numeric_columns,        \* self.feature_columns.numeric_columns
    payment_history_features, \* what get_payment_history_features returned
    ctxStatus,              \* "none" | "ok" | "failed": the global-context try block
    histStatus,             \* "none" | "ok" | "failed": the payment-history try block
    pcBuild,                \* position in get_user_profiles_by_date
    \* --- Splitter
    min_date,               \* self.min_date
    max_date,               \* self.max_date
    training_split_parameters, \* [split, split_ratio], the ratio in tenths
    train_indices,          \* row positions of the train set
    test_indices,           \* row positions of the test set
    pcSplit,                \* "ready" | "split" | "TypeError" | "ValueError"
    \* --- CategoryEncoder, training side
    profiles_fetched,       \* the frame as get_user_profiles_by_date returned it
    category_list_dict,     \* self.category_list_dict
    X_train,                \* the frame with its categorical columns replaced by dummies
    pcEncode,               \* position in create_feature_frame / the transformations
    \* --- CategoryEncoder, one column against a frozen list
    scoring_column,         \* the categorical column handed in: [name, values]
    data,                   \* the values after the Unknown-substitution
    dummies,                \* the dummy columns generated from data
    pcDummy,                \* "ready" | "encoded" | "encoded_twice" | "KeyError" | "ValueError"
    \* --- Normalizer
    normalization_handling, \* self.normalization_handling
    window_variants,        \* feature_columns.numeric_columns_with_window_variants
    next_column_set,        \* the column set the loop of line 392 is at
    pcNorm,                 \* "ready" | "loop" | "done" | "skipped" | the error raised
    \* --- ModelTrainer, the outcome frame
    labels_actual,          \* the keys of labels_actual, in the order of the dict
    labels_predicted,       \* the keys of labels_predicted, in the order of the dict
    outcome_labels,         \* self.outcome_labels
    outcome_frame,          \* [columns, data, index]: names, what each column holds, row names
    pcOutcome,              \* "ready" | "done" | "ValueError"
    \* --- Artifact retention
    artifact_retention_mode, \* self.artifact_retention_mode: "DUMP" | "DROP"
    artifacts_to_retain,    \* self.artifacts_to_retain
    attributes,             \* the artifacts the object holds as attributes
    dumped,                 \* the artifacts artifact_handler wrote to a file
    pcRetain,               \* "ready" | "trained" | "predicted"
    \* --- ModelTrainer and PredictionPipeline
    model_function,         \* the classifier type handed to train_model
    model,                  \* self.model: [state, columns], the columns it was fitted on
    train_frame,            \* self.X_train of this object: [held, columns]
    model_pkl,              \* model_{model_date}.pkl: [written, columns]
    importances_csv,        \* variable_importances_{model_date}.csv: [written, index]
    aligned_frame,          \* self.prediction_data as line 952 left it
    classifier_calls,       \* the prediction calls made: [method, frame]
    pcPredict,              \* "ready" | "trained" | "saved" | "fresh" | "predicted" | an error
    \* --- Outcome labelling (aggregate/utils/conversion_events.py)
    aggregated_browser_days, \* the table: [browser_id, date] -> [event, time], event "absent" for no row
    events,                 \* the events table, a bag of [user_id, browser_id, time, type]
    cur_date,               \* the date of the run in progress or last finished
    commerce_file,          \* the rows of commerce_{date}.csv, in file order
    pageviews_file,         \* the rows of pageviews_{date}.csv, in file order
    first_run,              \* [days, events] as the first run of cur_date left the tables
    pcEvents,               \* position in run(): [run, step]
    \* --- Outcome filling of create_feature_frame
    pcFill                  \* "ready" | "filtered"

alignVars == <<prediction_data, variable_importances, pcAlign>>

loadVars == <<model_files, model_date, pcTrain, runs, scoring_date,
              last_model_related_files, loaded, loadStatus>>

buildVars == <<user_profiles, numeric_columns, payment_history_features,
               ctxStatus, histStatus, pcBuild>>

splitVars == <<min_date, max_date, training_split_parameters,
               train_indices, test_indices, pcSplit>>

encodeVars == <<profiles_fetched, category_list_dict, X_train, pcEncode>>

dummyVars == <<scoring_column, data, dummies, pcDummy>>

normVars == <<normalization_handling, window_variants, next_column_set, pcNorm>>
outcomeVars == <<labels_actual, labels_predicted, outcome_labels, outcome_frame, pcOutcome>>
retainVars == <<artifact_retention_mode, artifacts_to_retain, attributes, dumped, pcRetain>>
\* The variables of the components modelled after the outcome frame.
predictVars == <<model_function, model, train_frame, model_pkl, importances_csv,
                 aligned_frame, classifier_calls, pcPredict>>
eventVars == <<aggregated_browser_days, events, cur_date, commerce_file,
               pageviews_file, first_run, pcEvents>>
fillVars == <<pcFill>>
restVars == <<retainVars, predictVars, eventVars, fillVars>>

vars == <<alignVars, loadVars, buildVars, splitVars, encodeVars, dummyVars, normVars, outcomeVars, restVars>>

othersThanAlign == <<loadVars, buildVars, splitVars, encodeVars, dummyVars, normVars, outcomeVars, restVars>>
othersThanLoad == <<alignVars, buildVars, splitVars, encodeVars, dummyVars, normVars, outcomeVars, restVars>>
othersThanBuild == <<alignVars, loadVars, splitVars, encodeVars, dummyVars, normVars, outcomeVars, restVars>>

(***************************************************************************)
(* Generic helpers on sequences.                                           *)
(***************************************************************************)
Range(s) == {s[i] : i \in DOMAIN s}

\* The duplicate-free sequences over S of length at most n.
DupFreeSeqs(S, n) ==
    {s \in UNION {[1..k -> S] : k \in 0..n} :
        \A i, j \in DOMAIN s : s[i] = s[j] => i = j}

RECURSIVE Concat(_)
\* The concatenation of a sequence of sequences.
Concat(ss) == IF ss = <<>> THEN <<>> ELSE Head(ss) \o Concat(Tail(ss))

(***************************************************************************)
(* ColumnAligner: align_prediction_frame_with_train_columns.               *)
(***************************************************************************)
\* Longest column list drawn for the scoring frame and for the trained columns.
MaxCols == 3

\* Column names a scoring frame or a trained model can carry.
ColumnNames == {"pageview_count", "clv", "device_Desktop", "browser_Other"}

ColumnsOf(frame) == [i \in DOMAIN frame |-> frame[i].name]

\* Step 1: drop columns that are in new data, but weren't used in training.
DropUntrainedColumns(frame, trained) ==
    SelectSeq(frame, LAMBDA col : col.name \in Range(trained))

RECURSIVE AddMissingColumns(_, _)
\* Step 2: add 0 columns that were in train, but aren't in new data.  The
\* list of missing columns is computed once, before the first assignment.
AddMissingColumns(frame, missing) ==
    IF missing = <<>> THEN frame
    ELSE AddMissingColumns(
            IF \E i \in DOMAIN frame : frame[i].name = Head(missing)
                THEN [i \in DOMAIN frame |->
                        IF frame[i].name = Head(missing)
                            THEN [name |-> Head(missing), val |-> "zero"]
                            ELSE frame[i]]
                ELSE Append(frame, [name |-> Head(missing), val |-> "zero"]),
            Tail(missing))

\* df[list_of_names]: for every requested name in turn, the frame's columns of
\* that name.
SelectColumns(frame, names) ==
    Concat([i \in DOMAIN names |->
                SelectSeq(frame, LAMBDA col : col.name = names[i])])

\* Step 3 forgotten: the frame keeps the order it had.
ReorderSkipped(frame, trained) == frame

\* Step 3: make sure the columns have the same order as original data.
ReorderAsTrained(frame, trained) == SelectColumns(frame, trained)

\* The three steps of align_prediction_frame_with_train_columns.
AlignedFrame(frame, trained) ==
    LET dropped == DropUntrainedColumns(frame, trained)
        missing == SelectSeq(trained,
                        LAMBDA c : c \notin Range(ColumnsOf(dropped)))
        filled  == AddMissingColumns(dropped, missing)
    IN  ReorderAsTrained(filled, trained)

\* The other components' variables, at rest.
IdleAlign ==
    /\ prediction_data = <<>>
    /\ variable_importances = <<>>
    /\ pcAlign = "idle"

InitAlign ==
    /\ \E cols \in DupFreeSeqs(ColumnNames, MaxCols) :
            prediction_data = [i \in DOMAIN cols |-> [name |-> cols[i], val |-> "data"]]
    /\ variable_importances \in DupFreeSeqs(ColumnNames, MaxCols)
    /\ pcAlign = "ready"

\* df[names] raises KeyError when a requested name is no column of the frame.
align_prediction_frame_with_train_columns ==
    /\ pcAlign = "ready"
    /\ LET filled == AddMissingColumns(
                        DropUntrainedColumns(prediction_data, variable_importances),
                        SelectSeq(variable_importances,
                            LAMBDA c : c \notin Range(ColumnsOf(
                                DropUntrainedColumns(prediction_data, variable_importances)))))
       IN  IF Range(variable_importances) \subseteq Range(ColumnsOf(filled))
            THEN /\ prediction_data' = AlignedFrame(prediction_data, variable_importances)
                 /\ pcAlign' = "aligned"
            ELSE /\ prediction_data' = filled
                 /\ pcAlign' = "KeyError"
    /\ UNCHANGED variable_importances
    /\ UNCHANGED othersThanAlign

(***************************************************************************)
(* FeatureColumns (utils/config.py), cut down to one column per group.     *)
(***************************************************************************)
CATEGORICAL_COLUMNS == <<"device", "browser">>

NUMERIC_COLUMNS_BASE == <<"pageview_count">>

\* One of the three prefix/suffix pairs of
\* NUMERIC_COLUMN_WINDOW_NAME_SUFFIXES_AND_PREFIXES.
create_window_variant_permuations(column_list) ==
    LET kept == SelectSeq(column_list, LAMBDA c : c # "days_since_last_active")
    IN  [i \in DOMAIN kept |-> kept[i] \o "_first_window_half"]

\* unpack_profile_based_fields(build_out_profile_based_column_names(False))
profile_numeric_columns_from_json_fields == <<"referer_medium_pageviews_direct_count">>

\* FeatureColumns.__init__: self.numeric_columns
InitialNumericColumns == NUMERIC_COLUMNS_BASE \o profile_numeric_columns_from_json_fields

numeric_columns_with_window_variants ==
    create_window_variant_permuations(NUMERIC_COLUMNS_BASE) \o NUMERIC_COLUMNS_BASE

BOOL_COLUMNS == <<"is_active_on_date">>

CONFIG_COLUMNS == <<"date", "browser_id", "user_id">>

add_payment_history_features(numeric) ==
    numeric \o <<"clv", "days_since_last_subscription">>

add_global_context_features(numeric) ==
    numeric \o <<"article_pageviews_count", "sum_paid", "pageviews_count", "avg_price">>

return_feature_list(numeric) == CATEGORICAL_COLUMNS \o numeric

(***************************************************************************)
(* Data frames.                                                            *)
(***************************************************************************)
\* A missing numeric value (NaN) and a missing date (NaT).
NaN == -1
NaT == -2

\* frame[column]
ColumnValues(frame, column) == [i \in DOMAIN frame.rows |-> frame.rows[i][column]]

\* frame[column] = values: a new column goes last, an existing one is replaced.
SetColumn(frame, column, values) ==
    [cols |-> IF column \in Range(frame.cols) THEN frame.cols
                                              ELSE Append(frame.cols, column),
     rows |-> [i \in DOMAIN frame.rows |->
                [c \in DOMAIN frame.rows[i] \cup {column} |->
                    IF c = column THEN values[i] ELSE frame.rows[i][c]]]]

\* frame[column] = scalar
SetColumnTo(frame, column, value) ==
    SetColumn(frame, column, [i \in DOMAIN frame.rows |-> value])

RECURSIVE SetColumnsTo(_, _, _)
\* for column in columns: frame[column] = scalar
SetColumnsTo(frame, columns, value) ==
    IF columns = <<>> THEN frame
    ELSE SetColumnsTo(SetColumnTo(frame, Head(columns), value), Tail(columns), value)

\* frame.drop(columns, axis=1)
DropColumns(frame, columns) ==
    [cols |-> SelectSeq(frame.cols, LAMBDA c : c \notin columns),
     rows |-> [i \in DOMAIN frame.rows |->
                [c \in DOMAIN frame.rows[i] \ columns |-> frame.rows[i][c]]]]

(***************************************************************************)
(* FeatureFrameBuilder: get_user_profiles_by_date.                         *)
(***************************************************************************)
\* Profile rows of the frame; row i is the browser's day i.
MaxProfiles == 2

\* the 1000 days is an arbitrary choice here
NoHistoryDays == 1000

\* rolling(7, min_periods=1)
RollingWindow == 7

ProfileDates == 1..MaxProfiles

\* The user id lists a row can carry: none, one id, a non-numeric id first.
UserIdLists == {<<>>, <<"id_7">>, <<"anon", "id_7">>}

\* .str.extract('([0-9]+)'): the first run of digits, NaN without one.
ExtractDigits(id) ==
    CASE id = "id_7" -> "7"
      [] id = "7" -> "7"
      [] OTHER -> "NaN"

\* .astype(int).astype(str)
IntToStr(n) == CASE n = 7 -> "7" [] n = 8 -> "8" [] OTHER -> "NaN"

\* Columns of the feature source that the registry knows and the source can omit.
OmittableColumns ==
    Range(return_feature_list(InitialNumericColumns))
        \cup Range(create_window_variant_permuations(NUMERIC_COLUMNS_BASE))

\* The frame get_feature_frame_via_sqlalchemy returns: the key, label and flag
\* columns, and the feature columns the source did not omit.
SourceFrame(omitted, idLists) ==
    LET cols == SelectSeq(
                    <<"browser_id", "date", "user_ids", "outcome", "is_active_on_date">>
                        \o return_feature_list(InitialNumericColumns)
                        \o create_window_variant_permuations(NUMERIC_COLUMNS_BASE),
                    LAMBDA c : c \notin omitted)
    IN  [cols |-> cols,
         rows |-> [i \in ProfileDates |->
                    [c \in Range(cols) |->
                        CASE c = "browser_id" -> "b1"
                          [] c = "date" -> i
                          [] c = "user_ids" -> idLists[i]
                          [] c = "outcome" -> "no_conversion"
                          [] c = "is_active_on_date" -> "t"
                          [] c = "device" -> "Desktop"
                          [] c = "browser" -> "Chrome"
                          [] OTHER -> 1]]]

\* The columns line 153-162 leaves to the joins.
ColumnsLeftToJoins ==
    {"clv", "days_since_last_subscription", "article_pageviews_count",
     "sum_paid", "avg_price", "pageviews_avg"}

\* for column in [registry columns not in the frame, not left to the joins]:
\*     self.user_profiles[column] = 0.0
FilledWithZero(frame, numeric) ==
    SetColumnsTo(frame,
        SelectSeq(return_feature_list(numeric),
            LAMBDA c : c \notin Range(frame.cols) /\ c \notin ColumnsLeftToJoins),
        0)

RECURSIVE SumOver(_, _, _)
SumOver(f, lo, hi) == IF lo > hi THEN 0 ELSE f[hi] + SumOver(f, lo, hi - 1)

\* .rolling(7, min_periods=1).sum() at position i of a column
RollingSum(values, i) ==
    SumOver(values, IF i - RollingWindow + 1 > 1 THEN i - RollingWindow + 1 ELSE 1, i)

\* Lines 356-365: the rolling sums of the context rows and the average price
\* (a float division: 0/0 is NaN).
RollingContext(context) ==
    [i \in DOMAIN context |->
        LET paid  == RollingSum([j \in DOMAIN context |-> context[j].sum_paid], i)
            count == RollingSum([j \in DOMAIN context |-> context[j].payment_count], i)
        IN  [date |-> context[i].date,
             article_pageviews_count |->
                RollingSum([j \in DOMAIN context |-> context[j].article_pageviews_count], i),
             sum_paid |-> paid,
             payment_count |-> count,
             avg_price |-> IF count = 0 THEN NaN ELSE paid \div count]]

\* Lines 370-378: the left merge on the date; a date without context row
\* gets NaN in the four columns.
MergedWithContext(frame, context) ==
    LET rolling == RollingContext(context)
        Cell(i, column) ==
            IF \E j \in DOMAIN rolling : rolling[j].date = frame.rows[i]["date"]
                THEN LET j == CHOOSE j \in DOMAIN rolling :
                                    rolling[j].date = frame.rows[i]["date"]
                     IN  rolling[j][column]
                ELSE NaN
        Joined(f, column) == SetColumn(f, column, [i \in DOMAIN f.rows |-> Cell(i, column)])
    IN  Joined(Joined(Joined(Joined(frame, "article_pageviews_count"),
                             "sum_paid"), "payment_count"), "avg_price")

\* Lines 177-178: the columns filled when the context join raised.
ContextFailureFill(frame) ==
    SetColumnsTo(frame,
        <<"article_pageviews_count", "sum_paid", "pageviews_count", "avg_price">>, 0)

\* Lines 296-298: the first user id of the row, its digits extracted.
FirstUserId(row) == ExtractDigits(row["user_ids"][1])

\* The payment history row the left merge on first_user_id = user_id finds.
HasHistory(history, row) ==
    \E h \in history : IntToStr(h.user_id) = FirstUserId(row) /\ FirstUserId(row) # "NaN"

HistoryOf(history, row) ==
    CHOOSE h \in history : IntToStr(h.user_id) = FirstUserId(row)

\* A guard that lets a subscription ending on the profile's day through.
LookAheadStrict(last_subscription_end, date) ==
    last_subscription_end # NaT /\ last_subscription_end > date

\* self.user_profiles['last_subscription_end'] >= self.user_profiles['date']
LookAhead(last_subscription_end, date) ==
    last_subscription_end # NaT /\ last_subscription_end >= date

\* Lines 316-340: merge, fillna and the look-ahead overwrite of clv and
\* days_since_last_subscription; last_subscription_end and first_user_id are
\* dropped, user_id stays.
MergedWithHistory(frame, history) ==
    LET Rec(i) == IF HasHistory(history, frame.rows[i])
                    THEN HistoryOf(history, frame.rows[i])
                    ELSE [user_id |-> NaN, clv |-> NaN,
                          days_since_last_subscription |-> NaN,
                          last_subscription_end |-> NaT]
        Clv(i)  == IF LookAhead(Rec(i).last_subscription_end, frame.rows[i]["date"])
                    THEN 0
                    ELSE IF Rec(i).clv = NaN THEN 0 ELSE Rec(i).clv
        Days(i) == IF LookAhead(Rec(i).last_subscription_end, frame.rows[i]["date"])
                    THEN NoHistoryDays
                    ELSE IF Rec(i).days_since_last_subscription = NaN
                            THEN NoHistoryDays
                            ELSE Rec(i).days_since_last_subscription
        withId   == SetColumn(frame, "user_id",
                        [i \in DOMAIN frame.rows |-> IntToStr(Rec(i).user_id)])
        withClv  == SetColumn(withId, "clv", [i \in DOMAIN frame.rows |-> Clv(i)])
    IN  SetColumn(withClv, "days_since_last_subscription",
                  [i \in DOMAIN frame.rows |-> Days(i)])

\* Lines 204-205: the columns filled when the payment-history join raised.
HistoryFailureFill(frame) ==
    SetColumnsTo(frame, <<"clv", "days_since_last_subscription">>, 0)

RECURSIVE unique_list(_)
\* utils.data_transformations.unique_list: the list without repeated entries.
unique_list(ids) ==
    IF ids = <<>> THEN <<>>
    ELSE <<Head(ids)>> \o unique_list(SelectSeq(Tail(ids), LAMBDA x : x # Head(ids)))

IdleBuild ==
    /\ user_profiles = [cols |-> <<>>, rows |-> <<>>]
    /\ numeric_columns = InitialNumericColumns
    /\ payment_history_features = {}
    /\ ctxStatus = "none"
    /\ histStatus = "none"
    /\ pcBuild = "idle"

InitBuild ==
    /\ user_profiles = [cols |-> <<>>, rows |-> <<>>]
    /\ numeric_columns = InitialNumericColumns
    /\ payment_history_features = {}
    /\ ctxStatus = "none"
    /\ histStatus = "none"
    /\ pcBuild = "fetch"

\* Lines 139-149: the feature source returns the frame, any registry column
\* omitted.
FetchFeatureFrame ==
    /\ pcBuild = "fetch"
    /\ \E omitted \in SUBSET OmittableColumns, idLists \in [ProfileDates -> UserIdLists] :
            user_profiles' = SourceFrame(omitted, idLists)
    /\ pcBuild' = "fill"
    /\ UNCHANGED <<numeric_columns, payment_history_features, ctxStatus, histStatus>>
    /\ UNCHANGED othersThanBuild

\* Lines 153-163.
FillMissingColumns ==
    /\ pcBuild = "fill"
    /\ user_profiles' = FilledWithZero(user_profiles, numeric_columns)
    /\ pcBuild' = "context"
    /\ UNCHANGED <<numeric_columns, payment_history_features, ctxStatus, histStatus>>
    /\ UNCHANGED othersThanBuild

\* What get_global_context can return: a row for any of the profile dates, in
\* date order, with or without a payment on that day.
ContextRows ==
    {[date |-> d, article_pageviews_count |-> 1, sum_paid |-> 2 * n, payment_count |-> n] :
        d \in ProfileDates, n \in {0, 1}}

Contexts ==
    {c \in UNION {[1..k -> ContextRows] : k \in 0..MaxProfiles} :
        \A i, j \in DOMAIN c : i < j => c[i].date < c[j].date}

\* Lines 166-169: get_contextual_features_from_mysql returns, the registry
\* gets the global context features.
ContextJoinSucceeds ==
    /\ pcBuild = "context"
    /\ \E context \in Contexts : user_profiles' = MergedWithContext(user_profiles, context)
    /\ numeric_columns' = add_global_context_features(numeric_columns)
    /\ ctxStatus' = "ok"
    /\ pcBuild' = "history"
    /\ UNCHANGED <<payment_history_features, histStatus>>
    /\ UNCHANGED othersThanBuild

\* Lines 170-178: get_global_context raised; the exception is caught.
ContextJoinFails ==
    /\ pcBuild = "context"
    /\ user_profiles' = ContextFailureFill(user_profiles)
    /\ ctxStatus' = "failed"
    /\ pcBuild' = "history"
    /\ UNCHANGED <<numeric_columns, payment_history_features, histStatus>>
    /\ UNCHANGED othersThanBuild

\* What get_payment_history_features can return: nothing or one row for
\* user 7, its last subscription ending on any profile date.
PaymentHistories ==
    {{}} \cup {{[user_id |-> 7, clv |-> 5, days_since_last_subscription |-> 30,
                 last_subscription_end |-> d]} : d \in ProfileDates}

\* Lines 195-198: get_user_history_features_from_mysql returns, the registry
\* gets the payment history features.  x[0] needs a first user id in every row.
HistoryJoinSucceeds ==
    /\ pcBuild = "history"
    /\ \A i \in DOMAIN user_profiles.rows : user_profiles.rows[i]["user_ids"] # <<>>
    /\ \E history \in PaymentHistories :
            /\ payment_history_features' = history
            /\ user_profiles' = MergedWithHistory(user_profiles, history)
    /\ numeric_columns' = add_payment_history_features(numeric_columns)
    /\ histStatus' = "ok"
    /\ pcBuild' = "validate"
    /\ UNCHANGED ctxStatus
    /\ UNCHANGED othersThanBuild

\* Lines 199-205: get_payment_history_features raised, or x[0] raised
\* IndexError on a row without user ids; the exception is caught.
HistoryJoinFails ==
    /\ pcBuild = "history"
    /\ user_profiles' = HistoryFailureFill(user_profiles)
    /\ histStatus' = "failed"
    /\ pcBuild' = "validate"
    /\ UNCHANGED <<numeric_columns, payment_history_features, ctxStatus>>
    /\ UNCHANGED othersThanBuild

\* Lines 207-208: the fillna works on a copy and changes nothing, but the
\* selection raises KeyError when a window-variant column is missing;
\* user_ids are made unique.
ValidateProfiles ==
    /\ pcBuild = "validate"
    /\ IF Range(numeric_columns_with_window_variants) \subseteq Range(user_profiles.cols)
        THEN /\ user_profiles' = SetColumn(user_profiles, "user_ids",
                    [i \in DOMAIN user_profiles.rows |->
                        unique_list(user_profiles.rows[i]["user_ids"])])
             /\ pcBuild' = "done"
        ELSE /\ pcBuild' = "KeyError"
             /\ UNCHANGED user_profiles
    /\ UNCHANGED <<numeric_columns, payment_history_features, ctxStatus, histStatus>>
    /\ UNCHANGED othersThanBuild

(***************************************************************************)
(* Splitter: the train/test split of create_train_test_transformations.    *)
(***************************************************************************)
\* Last day of the date ranges drawn for min_date..max_date.
MaxSplitDate == 3

\* Most rows of a frame that is split.
MaxSplitRows == 3

\* split_ratio, in tenths.
SplitRatios == 0..10

\* int(round(n * split_ratio, 0)): Python rounds a half to the even integer.
RoundedShare(n, tenths) ==
    LET whole == (n * tenths) \div 10
        rest  == (n * tenths) % 10
    IN  IF rest > 5 \/ (rest = 5 /\ whole % 2 = 1) THEN whole + 1 ELSE whole

\* pd.date_range(self.min_date, self.max_date): every day, both ends included.
DateRange(first, last) == [i \in 1..(last - first + 1) |-> first + i - 1]

\* dates[0:k]
Slice(dates, k) == SubSeq(dates, 1, IF k < Len(dates) THEN k ELSE Len(dates))

\* Series.max(): NaT for an empty series.
MaxOfDates(dates) ==
    IF dates = <<>> THEN NaT
    ELSE CHOOSE d \in Range(dates) : \A e \in Range(dates) : e <= d

\* train_date = dates[0:int(round(len(dates) * split_ratio, 0))].max()
TrainDate(first, last, tenths) ==
    MaxOfDates(Slice(DateRange(first, last),
                     RoundedShare(Len(DateRange(first, last)), tenths)))

\* frame.index: the row positions, in row order.
RowIndex(frame) == [i \in DOMAIN frame.rows |-> i]

\* A mask that takes the rows from the cutoff date on.
TrainIndicesFromCutoffOn(frame, train_date) ==
    SelectSeq(RowIndex(frame), LAMBDA i : frame.rows[i]["date"] >= train_date)

\* self.user_profiles[self.user_profiles['date'] <= train_date.date()].index
TrainIndices(frame, train_date) ==
    SelectSeq(RowIndex(frame), LAMBDA i : frame.rows[i]["date"] <= train_date)

\* self.user_profiles[self.user_profiles['date'] > train_date.date()].index
TestIndices(frame, train_date) ==
    SelectSeq(RowIndex(frame), LAMBDA i : frame.rows[i]["date"] > train_date)

\* A frame of profile rows with the given dates, as create_feature_frame
\* leaves it (index 0..n-1 after reset_index).
ProfilesDated(dates) ==
    [cols |-> <<"browser_id", "date", "user_ids", "outcome">>,
     rows |-> [i \in DOMAIN dates |->
                [c \in {"browser_id", "date", "user_ids", "outcome"} |->
                    CASE c = "browser_id" -> "b1"
                      [] c = "date" -> dates[i]
                      [] c = "user_ids" -> <<>>
                      [] OTHER -> 0]]]

IdleSplit ==
    /\ min_date = 0
    /\ max_date = 0
    /\ training_split_parameters = [split |-> "time_based", split_ratio |-> 6]
    /\ train_indices = <<>>
    /\ test_indices = <<>>
    /\ pcSplit = "idle"

\* The object after create_feature_frame: a date range, split parameters and
\* profile rows dated within the range.
InitSplit ==
    /\ min_date \in 1..MaxSplitDate
    /\ max_date \in min_date..MaxSplitDate
    /\ \E split \in {"time_based", "random"} : \E tenths \in SplitRatios :
            training_split_parameters = [split |-> split, split_ratio |-> tenths]
    /\ \E n \in 1..MaxSplitRows : \E dates \in [1..n -> min_date..max_date] :
            user_profiles = ProfilesDated(dates)
    /\ numeric_columns = InitialNumericColumns
    /\ payment_history_features = {}
    /\ ctxStatus = "none"
    /\ histStatus = "none"
    /\ pcBuild = "idle"
    /\ train_indices = <<>>
    /\ test_indices = <<>>
    /\ pcSplit = "ready"

\* Lines 562-580, the time-based branch.  With an empty slice train_date is
\* NaT: comparing a date with NaT is False in every row (both index sets
\* empty) or raises TypeError, depending on the pandas version.
SplitTimeBased ==
    /\ pcSplit = "ready"
    /\ training_split_parameters.split = "time_based"
    /\ LET train_date == TrainDate(min_date, max_date,
                                   training_split_parameters.split_ratio)
       IN  IF train_date = NaT
            THEN \/ /\ train_indices' = <<>>
                    /\ test_indices' = <<>>
                    /\ pcSplit' = "split"
                 \/ /\ pcSplit' = "TypeError"
                    /\ UNCHANGED <<train_indices, test_indices>>
            ELSE /\ train_indices' = TrainIndices(user_profiles, train_date)
                 /\ test_indices' = TestIndices(user_profiles, train_date)
                 /\ pcSplit' = "split"
    /\ UNCHANGED <<min_date, max_date, training_split_parameters>>
    /\ UNCHANGED <<alignVars, loadVars, buildVars, encodeVars, dummyVars, normVars, outcomeVars, restVars>>

\* sklearn's train_test_split with test_size = 1 - split_ratio and no
\* train_size: n_test = ceil(test_size * n), n_train = n - n_test.
TestRows(n, tenths) == (n * (10 - tenths) + 9) \div 10

\* train_test_split raises ValueError for a test_size outside (0, 1) and for
\* an empty train set.
RandomSplitRaises(n, tenths) ==
    \/ tenths \notin 1..9
    \/ n - TestRows(n, tenths) = 0

\* Line 566-568.  The shuffle of random_state=42 is some rearrangement of the
\* rows: its first n_test rows are the test set, the rest the train set.
SplitRandom ==
    /\ pcSplit = "ready"
    /\ training_split_parameters.split = "random"
    /\ LET n == Len(user_profiles.rows)
           tenths == training_split_parameters.split_ratio
       IN  IF RandomSplitRaises(n, tenths)
            THEN /\ pcSplit' = "ValueError"
                 /\ UNCHANGED <<train_indices, test_indices>>
            ELSE \E shuffled \in [1..n -> 1..n] :
                    /\ \A i, j \in 1..n : shuffled[i] = shuffled[j] => i = j
                    /\ test_indices' = SubSeq(shuffled, 1, TestRows(n, tenths))
                    /\ train_indices' = SubSeq(shuffled, TestRows(n, tenths) + 1, n)
                    /\ pcSplit' = "split"
    /\ UNCHANGED <<min_date, max_date, training_split_parameters>>
    /\ UNCHANGED <<alignVars, loadVars, buildVars, encodeVars, dummyVars, normVars, outcomeVars, restVars>>

(***************************************************************************)
(* ArtifactStore: the artifact files written by the training pipeline and  *)
(* load_model_related_constructs.                                          *)
(***************************************************************************)
\* Latest model date a training run can have (max training date + 1 day).
MaxModelDate == 3

\* Training runs started in one behaviour.
MaxRuns == 2

ModelDates == 1..MaxModelDate

\* The scoring date lies before, between or after the model dates.
ScoringDates == 0..(MaxModelDate + 1)

\* for model_related_file in ['category_lists', 'scaler', 'model', 'variable_importances']
ArtifactKinds == <<"category_lists", "scaler", "model", "variable_importances">>

\* The pipeline writes category_lists, scaler, model and variable_importances
\* in this order.
NextKindToWrite(kind) ==
    CASE kind = "category_lists" -> "scaler"
      [] kind = "scaler" -> "model"
      [] kind = "model" -> "variable_importances"
      [] kind = "variable_importances" -> "done"

\* open(name, 'w') / joblib.dump / to_csv: a file of that name is replaced.
WriteFile(files, kind, date, run) ==
    {f \in files : ~(f.kind = kind /\ f.date = date)}
        \cup {[kind |-> kind, date |-> date, run |-> run]}

AbsDiff(a, b) == IF a >= b THEN a - b ELSE b - a

\* The dates embedded in the names of the listed files of one kind.
DatesOfKind(files, kind) == {f.date : f \in {g \in files : g.kind = kind}}

\* The latest date among the files of a kind, whatever the scoring date.
LatestDates(files, kind, sdate) ==
    {d \in DatesOfKind(files, kind) : \A e \in DatesOfKind(files, kind) : e <= d}

\* Dates of one kind at the smallest absolute distance from the scoring date.
ClosestDates(files, kind, sdate) ==
    {d \in DatesOfKind(files, kind) :
        \A e \in DatesOfKind(files, kind) : AbsDiff(d, sdate) <= AbsDiff(e, sdate)}

\* A check that forgets the variable importances file.
UnalignedIgnoringImportances(resolved) ==
    Cardinality({resolved[k] : k \in DOMAIN resolved \ {"variable_importances"}}) > 1

\* if len(set(last_model_related_files.values())) > 1: raise ValueError
UnalignedModelFileDates(resolved) ==
    Cardinality({resolved[k] : k \in DOMAIN resolved}) > 1

FileOf(files, kind, date) == CHOOSE f \in files : f.kind = kind /\ f.date = date

IdleLoad ==
    /\ model_files = {}
    /\ model_date = 0
    /\ pcTrain = "idle"
    /\ runs = 0
    /\ scoring_date = 0
    /\ last_model_related_files = <<>>
    /\ loaded = <<>>
    /\ loadStatus = "none"

InitLoad ==
    /\ model_files = {}
    /\ model_date = 0
    /\ pcTrain = "idle"
    /\ runs = 0
    /\ scoring_date = 0
    /\ last_model_related_files = <<>>
    /\ loaded = <<>>
    /\ loadStatus = "none"

\* The model date taken from the last row of the frame.
ModelDateOfLastRow(frame) == frame.rows[Len(frame.rows)]["date"] + 1

\* self.model_date = self.user_profiles['date'].max() + timedelta(days=1)
ModelDateOf(frame) == MaxOfDates(ColumnValues(frame, "date")) + 1

\* The frame of a training window of days 0..last, the latest day first.
TrainingProfiles(last) == ProfilesDated([i \in 1..(last + 1) |-> last + 1 - i])

\* model_training_pipeline starts on the frame of some training window;
\* create_train_test_transformations sets model_date (line 562).
StartTraining ==
    /\ loadStatus = "none"
    /\ pcTrain \in {"idle", "done", "failed"}
    /\ runs < MaxRuns
    /\ \E last \in 0..(MaxModelDate - 1) : user_profiles' = TrainingProfiles(last)
    /\ model_date' = ModelDateOf(user_profiles')
    /\ runs' = runs + 1
    /\ pcTrain' = "category_lists"
    /\ UNCHANGED <<model_files, scoring_date, last_model_related_files, loaded, loadStatus>>
    /\ UNCHANGED <<numeric_columns, payment_history_features, ctxStatus,
                   histStatus, pcBuild>>
    /\ UNCHANGED <<alignVars, splitVars, encodeVars, dummyVars, normVars, outcomeVars, restVars>>

\* One of the four dumps of the run, named {kind}_{model_date}.
WriteArtifact ==
    /\ loadStatus = "none"
    /\ pcTrain \in Range(ArtifactKinds)
    /\ model_files' = WriteFile(model_files, pcTrain, model_date, runs)
    /\ pcTrain' = NextKindToWrite(pcTrain)
    /\ UNCHANGED <<model_date, runs, scoring_date, last_model_related_files, loaded, loadStatus>>
    /\ UNCHANGED othersThanLoad

\* An exception between two dumps (dummy generation, scaling, fit, the
\* outcome frame) ends the run; the files written so far stay.
TrainingFails ==
    /\ loadStatus = "none"
    /\ pcTrain \in {"scaler", "model", "variable_importances"}
    /\ pcTrain' = "failed"
    /\ UNCHANGED <<model_files, model_date, runs, scoring_date,
                   last_model_related_files, loaded, loadStatus>>
    /\ UNCHANGED othersThanLoad

\* load_model_related_constructs.  os.listdir returns the files in arbitrary
\* order, and of the dates at the smallest distance the first listed one is
\* taken: any of the closest dates of a kind, independently of the other kinds.
\* The scoring process loads once (batch_predict: if self.model is None), at
\* any moment of the training runs; what is written later does not reach it.
load_model_related_constructs ==
    /\ loadStatus = "none"
    /\ \E sd \in ScoringDates : scoring_date' = sd
    /\ IF \E i \in DOMAIN ArtifactKinds : DatesOfKind(model_files, ArtifactKinds[i]) = {}
        THEN \* [...][0] on an empty list; the kinds before it are resolved
             LET stop == CHOOSE i \in DOMAIN ArtifactKinds :
                            /\ DatesOfKind(model_files, ArtifactKinds[i]) = {}
                            /\ \A j \in 1..(i - 1) :
                                    DatesOfKind(model_files, ArtifactKinds[j]) # {}
                 done == {ArtifactKinds[j] : j \in 1..(stop - 1)}
             IN  /\ last_model_related_files' \in
                        [done -> ModelDates]
                 /\ \A k \in done : last_model_related_files'[k] \in
                        ClosestDates(model_files, k, scoring_date')
                 /\ loadStatus' = "IndexError"
                 /\ UNCHANGED loaded
        ELSE \E d1 \in ClosestDates(model_files, ArtifactKinds[1], scoring_date'),
                d2 \in ClosestDates(model_files, ArtifactKinds[2], scoring_date'),
                d3 \in ClosestDates(model_files, ArtifactKinds[3], scoring_date'),
                d4 \in ClosestDates(model_files, ArtifactKinds[4], scoring_date') :
                LET resolved == (ArtifactKinds[1] :> d1) @@ (ArtifactKinds[2] :> d2) @@
                                (ArtifactKinds[3] :> d3) @@ (ArtifactKinds[4] :> d4)
                IN  /\ last_model_related_files' = resolved
                    /\ IF UnalignedModelFileDates(resolved)
                        THEN /\ loadStatus' = "ValueError"
                             /\ UNCHANGED loaded
                        ELSE /\ loadStatus' = "loaded"
                             /\ loaded' = [k \in Range(ArtifactKinds) |->
                                                FileOf(model_files, k, resolved[k])]
    /\ UNCHANGED <<model_files, model_date, pcTrain, runs>>
    /\ UNCHANGED othersThanLoad

(***************************************************************************)
(* CategoryEncoder: encode_uncommon_categories, generate_category_list_dict *)
(* and the dummy columns, on a training frame.                             *)
(***************************************************************************)
\* The number 0 in a categorical column (line 162 fills a missing column
\* with it), and a missing value, both written as category values.
Zero == "0"
Null == "NaN"

\* value_counts(normalize=True) < 0.05
UncommonPercent == 5

\* Most rows drawn for a category that can be uncommon.
MaxRare == 1

\* Rows drawn for a category that is common.
CommonRows == 19

RowCounts == (0..MaxRare) \cup {CommonRows}

\* Rows of browsers that were not active: none, or as many as a common category.
InactiveRowCounts == {0, CommonRows}

\* The values a categorical column of the source can carry, in the order of
\* their first rows.
CategoryValues(column) ==
    IF column = "device" THEN <<"Mobile", Zero, "Desktop", "Other", Null>>
                         ELSE <<"Firefox", "Chrome", "Other", Null>>

CountOf(values, v) == Cardinality({i \in DOMAIN values : values[i] = v})

\* value_counts() leaves missing values out, of the counts and of the total.
NonNullCount(values) == Cardinality({i \in DOMAIN values : values[i] # Null})

\* No value is taken as uncommon.
NoUncommonValues(values) == {}

\* value_counts(normalize=True)[value_counts(normalize=True) < 0.05].index
UncommonValues(values) ==
    {v \in Range(values) \ {Null} :
        CountOf(values, v) * 100 < UncommonPercent * NonNullCount(values)}

\* frame.loc[frame[column].isin(from), column] = to
ReplaceValues(frame, column, from, to) ==
    SetColumn(frame, column,
        [i \in DOMAIN frame.rows |->
            IF frame.rows[i][column] \in from THEN to ELSE frame.rows[i][column]])

\* self.user_profiles.loc[self.user_profiles['device'] == 0, 'device'] = 'Desktop'
DeviceZeroAsDesktop(frame) == ReplaceValues(frame, "device", {Zero}, "Desktop")

RECURSIVE RecodeUncommon(_, _)
\* for column in categorical_columns: the uncommon values become 'Other'
RecodeUncommon(frame, columns) ==
    IF columns = <<>> THEN frame
    ELSE RecodeUncommon(
            ReplaceValues(frame, Head(columns),
                UncommonValues(ColumnValues(frame, Head(columns))), "Other"),
            Tail(columns))

\* self.user_profiles[self.user_profiles['days_active_count'] >= 1]
ActiveProfiles(frame) ==
    [cols |-> frame.cols,
     rows |-> SelectSeq(frame.rows, LAMBDA row : row["days_active_count"] >= 1)]

RECURSIVE unique(_)
\* Series.unique(): the values in the order of their first appearance.
unique(values) ==
    IF values = <<>> THEN <<>>
    ELSE <<Head(values)>> \o SelectSeq(unique(Tail(values)), LAMBDA v : v # Head(values))

\* self.category_list_dict[column] = list(unique()) + ['Unknown'], every column
CategoryLists(frame) ==
    [column \in Range(CATEGORICAL_COLUMNS) |->
        unique(ColumnValues(frame, column)) \o <<"Unknown">>]

\* An unlisted value takes the value of the row before it, 'Unknown' in the
\* first row.
encode_unknown_from_previous_row(values, category_list) ==
    [i \in DOMAIN values |->
        IF values[i] \in Range(category_list) THEN values[i]
        ELSE IF i = 1 THEN "Unknown" ELSE values[i - 1]]

\* The mask without its negation: the listed values are overwritten.
encode_listed_categorie(values, category_list) ==
    [i \in DOMAIN values |->
        IF values[i] \in Range(category_list) THEN "Unknown" ELSE values[i]]

\* data[~(data.isin(category_list))] = 'Unknown'
encode_unknown_categorie(values, category_list) ==
    [i \in DOMAIN values |->
        IF values[i] \in Range(category_list) THEN values[i] ELSE "Unknown"]

\* pd.Categorical(data, categories=...) raises ValueError when the categories
\* hold a missing value or the same value twice.
CategoricalRaises(category_list) ==
    \/ Null \in Range(category_list)
    \/ \E i, j \in DOMAIN category_list : i # j /\ category_list[i] = category_list[j]

\* data.name + '_' + dummy_column
DummyName(column, category) == column \o "_" \o category

\* One column per category in the order of the list, {column}_Unknown kept.
DummyColumnsKeepingUnknown(column, category_list) ==
    [i \in DOMAIN category_list |-> DummyName(column, category_list[i])]

\* One column per category in the order of the list, without {column}_Unknown.
DummyColumns(column, category_list) ==
    SelectSeq([i \in DOMAIN category_list |-> DummyName(column, category_list[i])],
              LAMBDA name : name # DummyName(column, "Unknown"))

\* pd.get_dummies on the substituted values themselves: one column per value
\* the rows carry, in the order of first appearance.
generate_dummy_columns_by_appearance(column, values, category_list) ==
    LET encoded == encode_unknown_categorie(values, category_list)
        names == DummyColumns(column, unique(encoded))
    IN  [cols |-> names,
         rows |-> [i \in DOMAIN values |->
                    [name \in Range(names) |->
                        IF name = DummyName(column, encoded[i]) THEN 1 ELSE 0]]]

\* generate_dummy_columns_from_categorical_column for a list that
\* pd.Categorical accepts.
generate_dummy_columns_from_categorical_column(column, values, category_list) ==
    LET encoded == encode_unknown_categorie(values, category_list)
        names == DummyColumns(column, category_list)
    IN  [cols |-> names,
         rows |-> [i \in DOMAIN values |->
                    [name \in Range(names) |->
                        IF name = DummyName(column, encoded[i]) THEN 1 ELSE 0]]]

\* pd.concat([data, dummies], axis=1)
ConcatColumns(frame, added) ==
    [cols |-> frame.cols \o added.cols,
     rows |-> [i \in DOMAIN frame.rows |->
                [c \in DOMAIN frame.rows[i] \cup DOMAIN added.rows[i] |->
                    IF c \in DOMAIN added.rows[i] THEN added.rows[i][c]
                                                    ELSE frame.rows[i][c]]]]

RECURSIVE WithDummies(_, _, _)
\* for column in categorical_columns: data = pd.concat([data, dummies of column])
WithDummies(frame, columns, lists) ==
    IF columns = <<>> THEN frame
    ELSE WithDummies(
            ConcatColumns(frame,
                generate_dummy_columns_from_categorical_column(
                    Head(columns), ColumnValues(frame, Head(columns)),
                    lists[Head(columns)])),
            Tail(columns), lists)

\* replace_dummy_columns_with_dummies: the loop, then the categorical columns
\* are dropped.
replace_dummy_columns_with_dummies(frame, lists) ==
    DropColumns(WithDummies(frame, CATEGORICAL_COLUMNS, lists),
                Range(CATEGORICAL_COLUMNS))

\* count rows that carry value in column and the first value of the other
\* categorical column.
ProfileRows(column, value, count, active) ==
    [i \in 1..count |->
        [c \in {"device", "browser", "days_active_count"} |->
            CASE c = "days_active_count" -> active
              [] c = column -> value
              [] OTHER -> Head(CategoryValues(c))]]

\* A fetched frame: rows of inactive browsers first, then the rows of each
\* value of the column.
FetchedProfiles(column, counts, inactiveValue, inactiveCount) ==
    [cols |-> <<"device", "browser", "days_active_count">>,
     rows |-> ProfileRows(column, inactiveValue, inactiveCount, 0)
                \o Concat([k \in DOMAIN CategoryValues(column) |->
                    ProfileRows(column, CategoryValues(column)[k], counts[k], 1)])]

IdleEncode ==
    /\ profiles_fetched = <<>>
    /\ category_list_dict = <<>>
    /\ X_train = <<>>
    /\ pcEncode = "idle"

\* create_feature_frame after get_user_profiles_by_date returned.
InitEncode ==
    /\ \E column \in Range(CATEGORICAL_COLUMNS) :
       \E counts \in [DOMAIN CategoryValues(column) -> RowCounts] :
       \E inactiveValue \in Range(CategoryValues(column)) :
       \E inactiveCount \in InactiveRowCounts :
            /\ inactiveCount = 0 => inactiveValue = Head(CategoryValues(column))
            /\ user_profiles =
                    FetchedProfiles(column, counts, inactiveValue, inactiveCount)
    /\ profiles_fetched = user_profiles
    /\ numeric_columns = InitialNumericColumns
    /\ payment_history_features = {}
    /\ ctxStatus = "none"
    /\ histStatus = "none"
    /\ pcBuild = "idle"
    /\ category_list_dict = <<>>
    /\ X_train = <<>>
    /\ pcEncode = "fetched"

\* Lines 484-489.
encode_uncommon_categories ==
    /\ pcEncode = "fetched"
    /\ user_profiles' = RecodeUncommon(DeviceZeroAsDesktop(user_profiles),
                                       CATEGORICAL_COLUMNS)
    /\ pcEncode' = "encoded"
    /\ UNCHANGED <<profiles_fetched, category_list_dict, X_train>>
    /\ UNCHANGED <<numeric_columns, payment_history_features, ctxStatus,
                   histStatus, pcBuild>>
    /\ UNCHANGED <<alignVars, loadVars, splitVars, dummyVars, normVars, outcomeVars, restVars>>

\* Line 463.
FilterActiveProfiles ==
    /\ pcEncode = "encoded"
    /\ user_profiles' = ActiveProfiles(user_profiles)
    /\ pcEncode' = "filtered"
    /\ UNCHANGED <<profiles_fetched, category_list_dict, X_train>>
    /\ UNCHANGED <<numeric_columns, payment_history_features, ctxStatus,
                   histStatus, pcBuild>>
    /\ UNCHANGED <<alignVars, loadVars, splitVars, dummyVars, normVars, outcomeVars, restVars>>

\* Line 584, in create_train_test_transformations.
generate_category_list_dict ==
    /\ pcEncode = "filtered"
    /\ category_list_dict' = CategoryLists(user_profiles)
    /\ pcEncode' = "listed"
    /\ UNCHANGED <<profiles_fetched, X_train>>
    /\ UNCHANGED <<alignVars, loadVars, buildVars, splitVars, dummyVars, normVars, outcomeVars, restVars>>

\* Lines 590-591, for the rows of X_train and X_test together.
GenerateTrainingDummies ==
    /\ pcEncode = "listed"
    /\ IF \E column \in Range(CATEGORICAL_COLUMNS) :
                CategoricalRaises(category_list_dict[column])
        THEN /\ pcEncode' = "ValueError"
             /\ UNCHANGED X_train
        ELSE /\ X_train' = replace_dummy_columns_with_dummies(user_profiles,
                                                              category_list_dict)
             /\ pcEncode' = "dummies"
    /\ UNCHANGED <<profiles_fetched, category_list_dict>>
    /\ UNCHANGED <<alignVars, loadVars, buildVars, splitVars, dummyVars, normVars, outcomeVars, restVars>>

(***************************************************************************)
(* CategoryEncoder: one categorical column encoded against a frozen list,  *)
(* as replace_dummy_columns_with_dummies does for a scoring frame.         *)
(***************************************************************************)
\* Most rows of the column that is encoded.
MaxScoreRows == 2

\* Most categories of a frozen list, 'Unknown' not counted.
MaxCategories == 2

\* The values training can freeze: no 0 (it became 'Desktop'), no missing
\* value (pd.Categorical refuses the list).
FrozenValues(column) == Range(CategoryValues(column)) \ {Zero, Null}

\* The values a column can carry when it is encoded.
ScoringValues(column) == (Range(CategoryValues(column)) \ {Zero}) \cup {"Unknown"}

\* The lists generate_category_list_dict can have written for a column.
FrozenLists(column) ==
    {categories \o <<"Unknown">> :
        categories \in DupFreeSeqs(FrozenValues(column), MaxCategories)}

\* A lookup that answers ['Unknown'] for a column without an entry.
category_list_or_default(lists, column) ==
    [raises |-> FALSE,
     list |-> IF column \in DOMAIN lists THEN lists[column] ELSE <<"Unknown">>]

\* self.category_list_dict[data.name]: KeyError without an entry.
category_list_lookup(lists, column) ==
    IF column \in DOMAIN lists THEN [raises |-> FALSE, list |-> lists[column]]
                               ELSE [raises |-> TRUE, list |-> <<>>]

IdleDummy ==
    /\ scoring_column = <<>>
    /\ data = <<>>
    /\ dummies = <<>>
    /\ pcDummy = "idle"

\* A column of a frame that create_feature_frame built, and the category
\* lists json.load read: an entry for some of the categorical columns.
InitDummy ==
    /\ \E column \in Range(CATEGORICAL_COLUMNS) :
        /\ \E n \in 0..MaxScoreRows : \E values \in [1..n -> ScoringValues(column)] :
                scoring_column = [name |-> column, values |-> values]
        /\ \E listed \in SUBSET Range(CATEGORICAL_COLUMNS) :
           \E categories \in FrozenLists(column) :
                category_list_dict =
                    [c \in listed |->
                        IF c = column THEN categories
                                      ELSE <<Head(CategoryValues(c)), "Unknown">>]
    /\ data = scoring_column.values
    /\ dummies = <<>>
    /\ pcDummy = "ready"
    /\ profiles_fetched = <<>>
    /\ X_train = <<>>
    /\ pcEncode = "idle"

\* generate_dummy_columns_from_categorical_column(data[column]): KeyError
\* without an entry for the column, ValueError from pd.Categorical.
GenerateDummyColumns ==
    /\ pcDummy = "ready"
    /\ IF category_list_lookup(category_list_dict, scoring_column.name).raises
        THEN /\ pcDummy' = "KeyError"
             /\ UNCHANGED <<data, dummies>>
        ELSE LET category_list ==
                    category_list_lookup(category_list_dict, scoring_column.name).list
             IN  /\ data' = encode_unknown_categorie(data, category_list)
                 /\ IF CategoricalRaises(category_list)
                     THEN /\ pcDummy' = "ValueError"
                          /\ UNCHANGED dummies
                     ELSE /\ dummies' = generate_dummy_columns_from_categorical_column(
                                            scoring_column.name, data, category_list)
                          /\ pcDummy' = "encoded"
    /\ UNCHANGED <<scoring_column, category_list_dict, profiles_fetched, X_train, pcEncode>>
    /\ UNCHANGED <<alignVars, loadVars, buildVars, splitVars, normVars, outcomeVars, restVars>>

\* The same call on the column the first call has substituted.
GenerateDummyColumnsAgain ==
    /\ pcDummy = "encoded"
    /\ LET category_list ==
            category_list_lookup(category_list_dict, scoring_column.name).list
       IN  /\ data' = encode_unknown_categorie(data, category_list)
           /\ dummies' = generate_dummy_columns_from_categorical_column(
                            scoring_column.name, data, category_list)
    /\ pcDummy' = "encoded_twice"
    /\ UNCHANGED <<scoring_column, category_list_dict, profiles_fetched, X_train, pcEncode>>
    /\ UNCHANGED <<alignVars, loadVars, buildVars, splitVars, normVars, outcomeVars, restVars>>

(***************************************************************************)
(* Normalizer: introduce_row_wise_normalized_features, as called by        *)
(* create_feature_frame.  pd.concat can leave two columns of one name, so  *)
(* the frame is here a sequence of columns [name, val], val telling what   *)
(* the column holds: "raw" values as fetched, "zero" (filled with 0.0),    *)
(* "float" (after astype(float)) or "normalized" values.                   *)
(***************************************************************************)
\* The members of NormalizedFeatureHandling that run.py names, and a value
\* that is none of them.
NormalizationHandlings == {"REPLACE_WITH", "ADD", "IGNORE", "unknown"}

\* feature_columns.time_based_columns: read at line 391, not defined by
\* FeatureColumns in utils/config.py; the column groups of the time windows.
time_based_columns == << <<"dow_0_count", "dow_1_count">> >>

\* Lines 390-391: the column sets the loop normalizes, one after the other.
ColumnSets == <<profile_numeric_columns_from_json_fields>> \o time_based_columns

\* build_out_profile_based_column_names(True): suffix = '_normalized'
NormalizedName(column) == column \o "_normalized"

\* FeatureColumns.add_normalized_profile_features_version
add_normalized_profile_features_version(variants) ==
    variants \o create_window_variant_permuations(
        [i \in DOMAIN profile_numeric_columns_from_json_fields |->
            NormalizedName(profile_numeric_columns_from_json_fields[i])])

\* add_missing_json_columns: a profile column the frame lacks is added, 0.0.
add_missing_json_columns(frame) ==
    frame \o [i \in DOMAIN SelectSeq(profile_numeric_columns_from_json_fields,
                        LAMBDA c : c \notin Range(ColumnsOf(frame))) |->
                [name |-> SelectSeq(profile_numeric_columns_from_json_fields,
                            LAMBDA c : c \notin Range(ColumnsOf(frame)))[i],
                 val |-> "zero"]]

\* self.user_profiles[column_set] = self.user_profiles[column_set].astype(float)
AsFloat(frame, column_set) ==
    [i \in DOMAIN frame |->
        IF frame[i].name \in Range(column_set)
            THEN [name |-> frame[i].name, val |-> "float"]
            ELSE frame[i]]

\* normalized_data, with normalized_data.columns = column_set (line 396)
NormalizedData(column_set) ==
    [i \in DOMAIN column_set |-> [name |-> column_set[i], val |-> "normalized"]]

\* A handling that is not REPLACE_WITH is taken as ADD.
HandlingBranchLenient(handling) ==
    IF handling = "REPLACE_WITH" THEN "drop" ELSE "register"

\* Lines 398-405: what the loop does with the raw columns of a set.
HandlingBranch(handling) ==
    CASE handling = "REPLACE_WITH" -> "drop"
      [] handling = "ADD" -> "register"
      [] OTHER -> "raise"

\* Columns of a fetched frame next to the column sets.
KeyColumns == <<"browser_id", "date">>

IdleNorm ==
    /\ normalization_handling = "REPLACE_WITH"
    /\ window_variants = numeric_columns_with_window_variants
    /\ next_column_set = 0
    /\ pcNorm = "idle"

\* create_feature_frame at line 465: a fetched frame that holds the key
\* columns and some of the columns of the column sets, in some order.
InitNorm ==
    /\ normalization_handling \in NormalizationHandlings
    /\ \E present \in SUBSET Range(Concat(ColumnSets)) :
       \E names \in DupFreeSeqs(Range(KeyColumns) \cup present,
                                Len(KeyColumns) + Cardinality(present)) :
            /\ Range(names) = Range(KeyColumns) \cup present
            /\ user_profiles = [i \in DOMAIN names |-> [name |-> names[i], val |-> "raw"]]
    /\ profiles_fetched = user_profiles
    /\ window_variants = numeric_columns_with_window_variants
    /\ next_column_set = 0
    /\ pcNorm = "ready"
    /\ numeric_columns = InitialNumericColumns
    /\ payment_history_features = {}
    /\ ctxStatus = "none"
    /\ histStatus = "none"
    /\ pcBuild = "idle"
    /\ category_list_dict = <<>>
    /\ X_train = <<>>
    /\ pcEncode = "idle"

\* Lines 465-467 and 388-391.  IGNORE skips the step.  Otherwise the missing
\* profile columns are filled, and the read of time_based_columns raises
\* AttributeError on the FeatureColumns of utils/config.py, or yields the
\* column groups of a registry that defines it.
StartNormalization ==
    /\ pcNorm = "ready"
    /\ IF normalization_handling = "IGNORE"
        THEN /\ pcNorm' = "skipped"
             /\ UNCHANGED <<user_profiles, next_column_set>>
        ELSE /\ user_profiles' = add_missing_json_columns(user_profiles)
             /\ \/ /\ pcNorm' = "AttributeError"
                   /\ UNCHANGED next_column_set
                \/ /\ pcNorm' = "loop"
                   /\ next_column_set' = 1
    /\ UNCHANGED <<normalization_handling, window_variants>>
    /\ UNCHANGED <<profiles_fetched, category_list_dict, X_train, pcEncode>>
    /\ UNCHANGED <<numeric_columns, payment_history_features, ctxStatus,
                   histStatus, pcBuild>>
    /\ UNCHANGED <<alignVars, loadVars, splitVars, dummyVars, outcomeVars, restVars>>

\* One pass of the loop, lines 392-412: KeyError when the frame lacks a
\* column of the set, ValueError for a handling the branches do not know.
NormalizeColumnSet ==
    /\ pcNorm = "loop"
    /\ LET column_set == ColumnSets[next_column_set]
           branch == HandlingBranch(normalization_handling)
           last == next_column_set = Len(ColumnSets)
       IN  IF ~(Range(column_set) \subseteq Range(ColumnsOf(user_profiles)))
            THEN /\ pcNorm' = "KeyError"
                 /\ UNCHANGED <<user_profiles, window_variants, next_column_set>>
            ELSE IF branch = "raise"
            THEN /\ pcNorm' = "ValueError"
                 /\ user_profiles' = AsFloat(user_profiles, column_set)
                 /\ UNCHANGED <<window_variants, next_column_set>>
            ELSE /\ user_profiles' =
                        (IF branch = "drop"
                            THEN SelectSeq(user_profiles,
                                    LAMBDA col : col.name \notin Range(column_set))
                            ELSE AsFloat(user_profiles, column_set))
                        \o NormalizedData(column_set)
                 /\ window_variants' =
                        IF branch = "register"
                            THEN add_normalized_profile_features_version(window_variants)
                            ELSE window_variants
                 /\ pcNorm' = IF last THEN "done" ELSE "loop"
                 /\ next_column_set' = IF last THEN next_column_set
                                               ELSE next_column_set + 1
    /\ UNCHANGED normalization_handling
    /\ UNCHANGED <<profiles_fetched, category_list_dict, X_train, pcEncode>>
    /\ UNCHANGED <<numeric_columns, payment_history_features, ctxStatus,
                   histStatus, pcBuild>>
    /\ UNCHANGED <<alignVars, loadVars, splitVars, dummyVars, outcomeVars, restVars>>

(***************************************************************************)
(* ModelTrainer: create_outcome_frame.  Text is a sequence of pieces, a    *)
(* digit being a piece of its own, so that re.sub of a digit is a          *)
(* replacement of pieces: the column name 0_train is <<"0", "_train">>.    *)
(***************************************************************************)
\* Most sets a label dictionary holds, most outcome labels.
MaxSets == 2
MaxLabels == 3

SetNames == {"train", "test", "validation"}

\* Label names in the order np.unique sorts them (LabelEncoder.fit, line 71).
LabelUniverse ==
    << <<"class", "1">>, <<"conversion">>, <<"no_conversion">>,
       <<"shared_account_login">> >>

\* self.le.classes_ after self.le.fit(outcome_labels)
classes_(labels) == SelectSeq(LabelUniverse, LAMBDA l : l \in Range(labels))

\* str(i) of a label index
Digits == <<"0", "1", "2", "3", "4", "5", "6", "7", "8", "9">>
Str(i) == Digits[i + 1]

\* re.sub(pattern, repl, column) for a one-digit pattern
RECURSIVE re_sub(_, _, _)
re_sub(pattern, repl, column) ==
    IF column = <<>> THEN <<>>
    ELSE (IF Head(column) = pattern THEN repl ELSE <<Head(column)>>)
            \o re_sub(pattern, repl, Tail(column))

\* Lines 755-757: for i in label_range, every str(i) in every column name
\* becomes the label of i, one label after the other.
RECURSIVE inverse_transform_columns(_, _, _)
inverse_transform_columns(columns, i, classes) ==
    IF i >= Len(classes) THEN columns
    ELSE inverse_transform_columns(
            [c \in DOMAIN columns |-> re_sub(Str(i), classes[i + 1], columns[c])],
            i + 1, classes)

\* Lines 762-784: the partial frames of the sets side by side, the columns of
\* each named 0 .. n-1; data tells the set and the label a column is about.
ConcatPartialFrames(sets, n) ==
    [columns |-> [p \in 1..(Len(sets) * n) |-> (p - 1) % n],
     data |-> [p \in 1..(Len(sets) * n) |->
                [set |-> sets[((p - 1) \div n) + 1], label |-> (p - 1) % n]]]

\* outcome_frame.columns[a:b], a Python slice
ColumnSlice(columns, a, b) ==
    SubSeq(columns, a + 1, IF b < Len(columns) THEN b ELSE Len(columns))

\* Lines 738-741
train_outcome_columns(columns, sets, n) ==
    IF "train" \in Range(sets)
        THEN [j \in DOMAIN ColumnSlice(columns, 0, n) |->
                <<Str(ColumnSlice(columns, 0, n)[j]), "_train">>]
        ELSE <<>>

\* Lines 743-751
test_outcome_columns(columns, sets, n) ==
    IF "test" \in Range(sets)
        THEN [j \in DOMAIN ColumnSlice(columns, n * (Len(sets) - 1), Len(sets) * n) |->
                <<Str(ColumnSlice(columns, n * (Len(sets) - 1), Len(sets) * n)[j]), "_test">>]
        ELSE <<>>

\* Lines 738-757: the column names format_outcome_frame assigns.
format_outcome_columns(columns, sets, n, classes) ==
    inverse_transform_columns(
        train_outcome_columns(columns, sets, n) \o test_outcome_columns(columns, sets, n),
        0, classes)

\* Line 759
OutcomeIndex == <<"precision", "recall", "f-score", "support">>

EmptyFrame == [columns |-> <<>>, data |-> <<>>, index |-> <<>>]

IdleOutcome ==
    /\ labels_actual = <<>>
    /\ labels_predicted = <<>>
    /\ outcome_labels = <<>>
    /\ outcome_frame = EmptyFrame
    /\ pcOutcome = "idle"

\* A call of create_outcome_frame: two dictionaries of label arrays and the
\* outcome labels the label encoder was fitted on.
InitOutcome ==
    /\ \E k \in 0..MaxSets : labels_actual \in DupFreeSeqs(SetNames, k)
    /\ \E k \in 0..MaxSets : labels_predicted \in DupFreeSeqs(SetNames, k)
    /\ \E n \in 1..MaxLabels : outcome_labels \in DupFreeSeqs(Range(LabelUniverse), n)
    /\ outcome_frame = EmptyFrame
    /\ pcOutcome = "ready"

\* create_outcome_frame, lines 713-791.  The ValueErrors are those of lines
\* 721-724, of the columns setter when the names are not as many as the
\* columns (line 753) and of the index setter on a frame without rows (759).
CreateOutcomeFrame ==
    /\ pcOutcome = "ready"
    /\ LET n == Len(outcome_labels)
           partial == ConcatPartialFrames(labels_actual, n)
           names == format_outcome_columns(partial.columns, labels_actual, n,
                                           classes_(outcome_labels))
       IN  IF \/ Len(labels_actual) # Len(labels_predicted)
              \/ Range(labels_actual) # Range(labels_predicted)
              \/ Len(names) # Len(partial.columns)
              \/ Len(labels_actual) = 0
            THEN /\ pcOutcome' = "ValueError"
                 /\ UNCHANGED outcome_frame
            ELSE /\ pcOutcome' = "done"
                 /\ outcome_frame' = [columns |-> names, data |-> partial.data,
                                      index |-> OutcomeIndex]
    /\ UNCHANGED <<labels_actual, labels_predicted, outcome_labels>>
    /\ UNCHANGED <<alignVars, loadVars, buildVars, splitVars, encodeVars,
                   dummyVars, normVars, restVars>>

(***************************************************************************)
(* Artifact retention: artifact_handler and its calls in the training      *)
(* pipeline (lines 642-643, 864-870) and the prediction pipeline (1010,    *)
(* 1068-1069).                                                             *)
(***************************************************************************)
\* The members of ModelArtifacts that run.py names.
ModelArtifacts ==
    {"USER_PROFILES", "TRAIN_DATA_FEATURES", "TRAIN_DATA_OUTCOME",
     "TEST_DATA_FEATURES", "TEST_DATA_OUTCOME", "MODEL", "PREDICTION_DATA"}

ArtifactRetentionModes == {"DUMP", "DROP"}

\* The artifacts the training pipeline hands to the handler, in call order.
TrainingArtifacts ==
    <<"USER_PROFILES", "TRAIN_DATA_FEATURES", "TRAIN_DATA_OUTCOME",
      "TEST_DATA_FEATURES", "TEST_DATA_OUTCOME">>

\* The artifacts the prediction pipeline hands to the handler, in call order.
PredictionArtifacts == <<"MODEL", "PREDICTION_DATA", "USER_PROFILES">>

\* artifact_handler on the pair [attributes, dumped]: under DUMP the artifact
\* is written first, and in both modes the attribute is deleted.
artifact_handler(held, mode, artifact) ==
    [attributes |-> held.attributes \ {artifact},
     dumped |-> IF mode = "DUMP" THEN held.dumped \cup {artifact} ELSE held.dumped]

\* The handler called for every artifact of the list, retained or not.
RECURSIVE HandleEach(_, _, _)
HandleEach(held, mode, artifacts) ==
    IF artifacts = <<>> THEN held
    ELSE HandleEach(artifact_handler(held, mode, Head(artifacts)),
                    mode, Tail(artifacts))

\* if artifact.value not in self.artifacts_to_retain: self.artifact_handler(artifact)
RECURSIVE HandleUnlessRetained(_, _, _, _)
HandleUnlessRetained(held, mode, retain, artifacts) ==
    IF artifacts = <<>> THEN held
    ELSE HandleUnlessRetained(
            IF Head(artifacts) \notin retain
                THEN artifact_handler(held, mode, Head(artifacts))
                ELSE held,
            mode, retain, Tail(artifacts))

IdleRetain ==
    /\ artifact_retention_mode = "DUMP"
    /\ artifacts_to_retain = {}
    /\ attributes = {}
    /\ dumped = {}
    /\ pcRetain = "idle"

\* An object as the constructor leaves it, lines 85-86, that has computed
\* the frames of a training run or of a prediction run.
InitRetain ==
    /\ artifact_retention_mode \in ArtifactRetentionModes
    /\ artifacts_to_retain \in SUBSET ModelArtifacts
    /\ attributes = ModelArtifacts
    /\ dumped = {}
    /\ pcRetain = "ready"

\* The handler calls of model_training_pipeline: line 642 in
\* create_train_test_transformations, then remove_model_training_artefacts.
TrainingPipelineDiscards ==
    /\ pcRetain = "ready"
    /\ LET held == HandleUnlessRetained([attributes |-> attributes, dumped |-> dumped],
                        artifact_retention_mode, artifacts_to_retain, TrainingArtifacts)
       IN  /\ attributes' = held.attributes
           /\ dumped' = held.dumped
    /\ pcRetain' = "trained"
    /\ UNCHANGED <<artifact_retention_mode, artifacts_to_retain>>
    /\ UNCHANGED <<alignVars, loadVars, buildVars, splitVars, encodeVars,
                   dummyVars, normVars, outcomeVars, predictVars, eventVars, fillVars>>

\* The handler calls of generate_and_upload_prediction: the mode is set to
\* DROP at line 1010, the loop of lines 1068-1069 asks for no retention.
PredictionPipelineDiscards ==
    /\ pcRetain \in {"ready", "trained"}
    /\ artifact_retention_mode' = "DROP"
    /\ LET held == HandleEach([attributes |-> attributes \cup Range(PredictionArtifacts),
                               dumped |-> dumped],
                        artifact_retention_mode', PredictionArtifacts)
       IN  /\ attributes' = held.attributes
           /\ dumped' = held.dumped
    /\ pcRetain' = "predicted"
    /\ UNCHANGED artifacts_to_retain
    /\ UNCHANGED <<alignVars, loadVars, buildVars, splitVars, encodeVars,
                   dummyVars, normVars, outcomeVars, predictVars, eventVars, fillVars>>

(***************************************************************************)
(* ModelTrainer and PredictionPipeline: train_model, the model and the     *)
(* variable importances that model_training_pipeline saves, and            *)
(* batch_predict on the same object or on a new one.  A frame is a         *)
(* sequence of [name, val] columns as in the ColumnAligner.                *)
(***************************************************************************)
\* A classifier type with feature_importances_ and one without.
ClassifierTypes == {"RandomForestClassifier", "LogisticRegression"}

HasFeatureImportances(classifier) == classifier = "RandomForestClassifier"

\* Lines 702-706 without the try: the missing attribute raises.
variable_importances_unguarded(classifier, columns) ==
    [raised |-> ~HasFeatureImportances(classifier), index |-> columns]

\* Lines 702-709: the Series of the importances indexed by X_train.columns,
\* or the empty Series when building it raised.
variable_importances_of(classifier, columns) ==
    [raised |-> FALSE,
     index |-> IF HasFeatureImportances(classifier) THEN columns ELSE <<>>]

\* The attributes of a new object, lines 72, 80, 93.
NoModel == [state |-> "none", columns |-> <<>>]
EmptyTrainFrame == [held |-> TRUE, columns |-> <<>>]
NoFile == [written |-> FALSE, columns |-> <<>>]
NoCsv == [written |-> FALSE, index |-> <<>>]

\* The frame handed to batch_predict, by its columns.
ScoringFrame(columns) == [i \in DOMAIN columns |-> [name |-> columns[i], val |-> "data"]]

\* Lines 957-959: the columns of X_train the frame lacks are added as 0.0,
\* then the frame is cut to the columns of X_train.
SelectTrainColumns(frame, columns) ==
    SelectColumns(
        AddMissingColumns(frame,
            SelectSeq(columns, LAMBDA c : c \notin Range(ColumnsOf(frame)))),
        columns)

\* The frame of line 960: as aligned when X_train is empty.
FrameForClassifier(frame, train) ==
    IF train.columns = <<>> THEN frame ELSE SelectTrainColumns(frame, train.columns)

IdlePredict ==
    /\ model_function = "RandomForestClassifier"
    /\ model = NoModel
    /\ train_frame = EmptyTrainFrame
    /\ model_pkl = NoFile
    /\ importances_csv = NoCsv
    /\ aligned_frame = <<>>
    /\ classifier_calls = <<>>
    /\ pcPredict = "idle"

\* train_model at line 684: X_train is ready for the fit.  The retention
\* collection lists every artifact or none.
InitPredict ==
    /\ model_function \in ClassifierTypes
    /\ model = NoModel
    /\ \E columns \in DupFreeSeqs(ColumnNames, MaxCols) :
            /\ columns # <<>>
            /\ train_frame = [held |-> TRUE, columns |-> columns]
    /\ model_pkl = NoFile
    /\ importances_csv = NoCsv
    /\ aligned_frame = <<>>
    /\ classifier_calls = <<>>
    /\ pcPredict = "ready"
    /\ prediction_data = <<>>
    /\ variable_importances = <<>>
    /\ pcAlign = "idle"
    /\ artifact_retention_mode \in ArtifactRetentionModes
    /\ artifacts_to_retain \in {{}, ModelArtifacts}
    /\ attributes = ModelArtifacts
    /\ dumped = {}
    /\ pcRetain = "idle"

\* train_model, lines 684-709, called on its own.
train_model ==
    /\ pcPredict = "ready"
    /\ LET importances == variable_importances_of(model_function, train_frame.columns)
       IN  /\ model' = [state |-> "fitted", columns |-> train_frame.columns]
           /\ variable_importances' =
                IF importances.raised THEN variable_importances ELSE importances.index
           /\ pcPredict' = IF importances.raised THEN "TrainingError" ELSE "trained"
    /\ UNCHANGED <<model_function, train_frame, model_pkl, importances_csv,
                   aligned_frame, classifier_calls>>
    /\ UNCHANGED <<prediction_data, pcAlign>>
    /\ UNCHANGED <<loadVars, buildVars, splitVars, encodeVars, dummyVars,
                   normVars, outcomeVars, retainVars, eventVars, fillVars>>

\* model_training_pipeline, lines 844-862: train_model, the model dump,
\* remove_model_training_artefacts and the csv of the variable importances.
model_training_pipeline ==
    /\ pcPredict = "ready"
    /\ LET importances == variable_importances_of(model_function, train_frame.columns)
       IN  /\ model' = [state |-> "fitted", columns |-> train_frame.columns]
           /\ IF importances.raised
                THEN /\ pcPredict' = "TrainingError"
                     /\ UNCHANGED <<variable_importances, model_pkl, importances_csv,
                                    train_frame>>
                ELSE /\ pcPredict' = "saved"
                     /\ variable_importances' = importances.index
                     /\ model_pkl' = [written |-> TRUE, columns |-> train_frame.columns]
                     /\ importances_csv' = [written |-> TRUE, index |-> importances.index]
                     /\ train_frame' =
                            [train_frame EXCEPT !.held =
                                "TRAIN_DATA_FEATURES" \in artifacts_to_retain]
    /\ UNCHANGED <<model_function, aligned_frame, classifier_calls>>
    /\ UNCHANGED <<prediction_data, pcAlign>>
    /\ UNCHANGED <<loadVars, buildVars, splitVars, encodeVars, dummyVars,
                   normVars, outcomeVars, retainVars, eventVars, fillVars>>

\* A new ConversionPredictionModel for the prediction run, lines 72-93.
NewPredictionObject ==
    /\ pcPredict = "saved"
    /\ model' = NoModel
    /\ train_frame' = EmptyTrainFrame
    /\ variable_importances' = <<>>
    /\ pcPredict' = "fresh"
    /\ UNCHANGED <<model_function, model_pkl, importances_csv, aligned_frame,
                   classifier_calls>>
    /\ UNCHANGED <<prediction_data, pcAlign>>
    /\ UNCHANGED <<loadVars, buildVars, splitVars, encodeVars, dummyVars,
                   normVars, outcomeVars, retainVars, eventVars, fillVars>>

\* batch_predict, lines 916-975.  Without a model the bundle is loaded; the
\* csv of an empty Series is an empty file and read_csv raises
\* EmptyDataError on it, after the model was loaded (lines 905-907).  A
\* deleted X_train raises AttributeError at line 956, and the classifier
\* raises ValueError for a frame that has not as many columns as it was
\* fitted on.
batch_predict ==
    /\ pcPredict \in {"trained", "saved", "fresh"}
    /\ \E columns \in DupFreeSeqs(ColumnNames, MaxCols) :
        LET loads == model.state = "none"
            classifier == IF loads THEN [state |-> "loaded", columns |-> model_pkl.columns]
                               ELSE model
            importances == IF loads THEN importances_csv.index ELSE variable_importances
            aligned == AlignedFrame(ScoringFrame(columns), importances)
            frame == FrameForClassifier(aligned, train_frame)
        IN  /\ model' = classifier
            /\ IF loads /\ importances_csv.index = <<>>
                THEN /\ pcPredict' = "EmptyDataError"
                     /\ UNCHANGED <<variable_importances, prediction_data,
                                    aligned_frame, classifier_calls>>
                ELSE /\ variable_importances' = importances
                     /\ aligned_frame' = aligned
                     /\ IF ~train_frame.held
                         THEN /\ pcPredict' = "AttributeError"
                              /\ prediction_data' = aligned
                              /\ UNCHANGED classifier_calls
                         ELSE /\ prediction_data' = frame
                              /\ IF Len(frame) # Len(classifier.columns)
                                  THEN /\ pcPredict' = "ValueError"
                                       /\ classifier_calls' =
                                            <<[method |-> "predict_proba", frame |-> frame]>>
                                  ELSE /\ pcPredict' = "predicted"
                                       /\ classifier_calls' =
                                            <<[method |-> "predict_proba", frame |-> frame],
                                              [method |-> "predict", frame |-> frame]>>
    /\ UNCHANGED <<model_function, train_frame, model_pkl, importances_csv>>
    /\ UNCHANGED pcAlign
    /\ UNCHANGED <<loadVars, buildVars, splitVars, encodeVars, dummyVars,
                   normVars, outcomeVars, retainVars, eventVars, fillVars>>

(***************************************************************************)
(* Outcome labelling: run() of aggregate/utils/conversion_events.py with   *)
(* its two parsers.  A time of day is a number of minutes; a time in a     *)
(* table is <<date, minute>>.                                              *)
(***************************************************************************)
\* Last date of aggregated_browser_days, most rows of an event file.
MaxDay == 8
MaxFileRows == 3

\* The days before cur_date that an event labels, the minutes a purchase
\* may follow its payment.
LabelledDays == 7
PaymentMinutes == 5

Days == 0..MaxDay
Browsers == {"b1", "b2"}
Users == {"u1", "u2"}

\* The rows a commerce file is drawn from: Commerce(row).
CommerceRows ==
    {[step |-> "payment", user_id |-> "u1", browser_id |-> "b1", time |-> 0],
     [step |-> "payment", user_id |-> "u1", browser_id |-> "b2", time |-> 2],
     [step |-> "purchase", user_id |-> "u1", browser_id |-> "", time |-> 4],
     [step |-> "purchase", user_id |-> "u1", browser_id |-> "", time |-> 9],
     [step |-> "purchase", user_id |-> "u2", browser_id |-> "", time |-> 4]}

\* The rows a pageviews file is drawn from: PageView(row).
PageViewRows ==
    {[browser_id |-> "b1", user_id |-> "", subscriber |-> FALSE, time |-> 1],
     [browser_id |-> "b1", user_id |-> "u1", subscriber |-> TRUE, time |-> 3],
     [browser_id |-> "b2", user_id |-> "u2", subscriber |-> TRUE, time |-> 6]}

CommerceFiles == DupFreeSeqs(CommerceRows, MaxFileRows)
PageViewFiles == DupFreeSeqs(PageViewRows, MaxFileRows)

RECURSIVE InsertByTime(_, _)
InsertByTime(sorted, row) ==
    IF sorted = <<>> THEN <<row>>
    ELSE IF Head(sorted).time <= row.time
        THEN <<Head(sorted)>> \o InsertByTime(Tail(sorted), row)
        ELSE <<row>> \o sorted

\* self.data.sort(key=lambda x: x.time): a stable sort.
RECURSIVE SortByTime(_)
SortByTime(rows) ==
    IF rows = <<>> THEN <<>>
    ELSE InsertByTime(SortByTime(SubSeq(rows, 1, Len(rows) - 1)), rows[Len(rows)])

\* No row, and the row the aggregation writes for an active browser day.
AbsentRow == [event |-> "absent", time |-> <<>>]
UnlabelledRow == [event |-> "no_conversion", time |-> <<>>]

\* DELETE FROM aggregated_browser_days WHERE browser_id = %s and date = %s
DeleteDay(days, browser_id, date) ==
    [k \in DOMAIN days |-> IF k = <<browser_id, date>> THEN AbsentRow ELSE days[k]]

\* The days before the date but one fewer than span_range(start, end) gives.
MarkedDaysButOne(date) == {d \in Days : date - LabelledDays < d /\ d <= date - 1}

\* span_range('day', start, end): end is the day before the date, start six
\* days before end.
MarkedDays(date) == {d \in Days : date - LabelledDays <= d /\ d <= date - 1}

\* UPDATE aggregated_browser_days SET next_7_days_event = ..., next_event_time = ...
\* WHERE date = %s AND browser_id = %s AND next_7_days_event = 'no_conversion'
MarkNext7Days(days, browser_id, date, event, minute) ==
    [k \in DOMAIN days |->
        IF k[1] = browser_id /\ k[2] \in MarkedDays(date)
                /\ days[k].event = "no_conversion"
            THEN [event |-> event, time |-> <<date, minute>>]
            ELSE days[k]]

\* CommerceParser.__mark_conversion_event
mark_conversion_event(days, browser_id, date, minute) ==
    MarkNext7Days(DeleteDay(days, browser_id, date), browser_id, date,
                  "conversion", minute)

NoMinute == 0 - 1

\* The loop of CommerceParser.process_file over the sorted rows.  parser
\* holds user_id_payment_time, user_id_browser_id, events_to_save and the
\* table as the statements so far left it.
RECURSIVE ProcessCommerce(_, _, _)
ProcessCommerce(rows, parser, date) ==
    IF rows = <<>> THEN parser
    ELSE LET c == Head(rows)
             next ==
                IF c.step = "payment" /\ c.browser_id # "" /\ c.user_id # ""
                    THEN [parser EXCEPT
                            !.user_id_payment_time[c.user_id] = c.time,
                            !.user_id_browser_id[c.user_id] = c.browser_id]
                ELSE IF /\ c.step = "purchase" /\ c.user_id # ""
                        /\ parser.user_id_payment_time[c.user_id] # NoMinute
                        /\ c.time - PaymentMinutes <= parser.user_id_payment_time[c.user_id]
                    THEN [parser EXCEPT
                            !.days = mark_conversion_event(parser.days,
                                        parser.user_id_browser_id[c.user_id], date, c.time),
                            !.events_to_save = Append(parser.events_to_save,
                                [user_id |-> c.user_id,
                                 browser_id |-> parser.user_id_browser_id[c.user_id],
                                 time |-> <<date, c.time>>,
                                 type |-> "conversion"])]
                ELSE parser
         IN  ProcessCommerce(Tail(rows), next, date)

\* CommerceParser.__init__ with the table the cursor sees.
NewCommerceParser(days) ==
    [user_id_payment_time |-> [u \in Users |-> NoMinute],
     user_id_browser_id |-> [u \in Users |-> ""],
     events_to_save |-> <<>>,
     days |-> days]

\* PageViewsParser.__find_login_events over the sorted rows.
RECURSIVE find_login_events(_, _)
find_login_events(rows, parser) ==
    IF rows = <<>> THEN parser
    ELSE LET pv == Head(rows)
             b == pv.browser_id
             next ==
                IF ~pv.subscriber /\ pv.user_id = ""
                    THEN [parser EXCEPT
                            !.not_logged_in_browsers = @ \cup {b}]
                ELSE IF pv.subscriber /\ pv.user_id # ""
                    THEN [parser EXCEPT
                            !.logged_in_browsers =
                                IF b \in parser.not_logged_in_browsers
                                    THEN @ \cup {b} ELSE @,
                            !.logged_in_browsers_time[b] =
                                IF \/ b \in parser.not_logged_in_browsers
                                   \/ @ = NoMinute
                                   \/ pv.time < @
                                    THEN pv.time ELSE @,
                            !.browser_user_id[b] = pv.user_id]
                ELSE parser
         IN  find_login_events(Tail(rows), next)

\* PageViewsParser.__init__
NewPageViewsParser ==
    [not_logged_in_browsers |-> {},
     logged_in_browsers |-> {},
     logged_in_browsers_time |-> [b \in Browsers |-> NoMinute],
     browser_user_id |-> [b \in Browsers |-> ""]]

\* PageViewsParser.__save_in_db: the day of every logged-in browser is
\* deleted, then the days before it are marked.  The browsers are distinct,
\* so the order of the statements does not matter.
RECURSIVE save_in_db(_, _, _, _)
save_in_db(days, parser, browsers, date) ==
    IF browsers = {} THEN days
    ELSE LET b == CHOOSE x \in browsers : TRUE
         IN  save_in_db(
                MarkNext7Days(DeleteDay(days, b, date), b, date,
                    "shared_account_login", parser.logged_in_browsers_time[b]),
                parser, browsers \ {b}, date)

\* The rows PageViewsParser.__save_events_to_separate_table inserts.
LoginEvents(parser, date) ==
    {[user_id |-> parser.browser_user_id[b],
      browser_id |-> b,
      time |-> <<date, parser.logged_in_browsers_time[b]>>,
      type |-> "shared_account_login"] : b \in parser.logged_in_browsers}

\* The events of the date are left in the table.
KeepEventsOfDay(table, date) == table

\* DELETE FROM events WHERE time::date = date %s
DeleteEventsOfDay(table, date) ==
    [e \in {x \in DOMAIN table : x.time[1] # date} |-> table[e]]

\* INSERT INTO events, one row per element of the list.
RECURSIVE InsertEvents(_, _)
InsertEvents(table, rows) ==
    IF rows = <<>> THEN table
    ELSE InsertEvents(table (+) SetToBag({Head(rows)}), Tail(rows))

IdleEvents ==
    /\ aggregated_browser_days = [k \in Browsers \X Days |-> AbsentRow]
    /\ events = EmptyBag
    /\ cur_date = 0
    /\ commerce_file = <<>>
    /\ pageviews_file = <<>>
    /\ first_run = [days |-> <<>>, events |-> EmptyBag]
    /\ pcEvents = [run |-> "none", step |-> "idle"]

\* The aggregation has written one unlabelled row per browser and day.
InitEvents ==
    /\ aggregated_browser_days = [k \in Browsers \X Days |-> UnlabelledRow]
    /\ events = EmptyBag
    /\ cur_date = 0
    /\ commerce_file = <<>>
    /\ pageviews_file = <<>>
    /\ first_run = [days |-> <<>>, events |-> EmptyBag]
    /\ pcEvents = [run |-> "none", step |-> "ready"]

\* The dates run() is called for: the last two days of the table.
RunDates == {d \in Days : d >= MaxDay - 1}

\* run(file_date), lines 204-227: up to the DELETE FROM events and its commit.
\* The files of the run under study ("first") are kept, and the run is
\* repeated on them ("again"); a run of the last date may have come before
\* it ("earlier").
run ==
    /\ \/ /\ pcEvents = [run |-> "none", step |-> "ready"]
          /\ \/ /\ pcEvents' = [run |-> "earlier", step |-> "commerce"]
                /\ cur_date' = MaxDay
             \/ /\ pcEvents' = [run |-> "first", step |-> "commerce"]
                /\ cur_date' \in RunDates
       \/ /\ pcEvents = [run |-> "earlier", step |-> "done"]
          /\ pcEvents' = [run |-> "first", step |-> "commerce"]
          /\ cur_date' \in RunDates
       \/ /\ pcEvents = [run |-> "first", step |-> "done"]
          /\ pcEvents' = [run |-> "again", step |-> "commerce"]
          /\ cur_date' = cur_date
    /\ events' = DeleteEventsOfDay(events, cur_date')
    /\ UNCHANGED <<aggregated_browser_days, commerce_file, pageviews_file, first_run>>
    /\ UNCHANGED <<alignVars, loadVars, buildVars, splitVars, encodeVars,
                   dummyVars, normVars, outcomeVars, retainVars, predictVars, fillVars>>

\* CommerceParser.process_file, lines 55-85.
CommerceParser_process_file ==
    /\ pcEvents.step = "commerce"
    /\ \E file \in CommerceFiles :
        /\ pcEvents.run = "again" => file = commerce_file
        /\ LET parser == ProcessCommerce(SortByTime(file),
                            NewCommerceParser(aggregated_browser_days), cur_date)
           IN  /\ aggregated_browser_days' = parser.days
               /\ events' = InsertEvents(events, parser.events_to_save)
        /\ commerce_file' = IF pcEvents.run = "earlier" THEN <<>> ELSE file
    /\ pcEvents' = [pcEvents EXCEPT !.step = "pageviews"]
    /\ UNCHANGED <<cur_date, pageviews_file, first_run>>
    /\ UNCHANGED <<alignVars, loadVars, buildVars, splitVars, encodeVars,
                   dummyVars, normVars, outcomeVars, retainVars, predictVars, fillVars>>

\* PageViewsParser.process_file, lines 195-200, and the end of run().
PageViewsParser_process_file ==
    /\ pcEvents.step = "pageviews"
    /\ \E file \in PageViewFiles :
        /\ pcEvents.run = "again" => file = pageviews_file
        /\ LET parser == find_login_events(SortByTime(file), NewPageViewsParser)
           IN  /\ aggregated_browser_days' =
                    save_in_db(aggregated_browser_days, parser,
                               parser.logged_in_browsers, cur_date)
               /\ events' = events (+) SetToBag(LoginEvents(parser, cur_date))
        /\ pageviews_file' = IF pcEvents.run = "earlier" THEN <<>> ELSE file
    /\ pcEvents' = [pcEvents EXCEPT !.step = "done"]
    /\ first_run' = IF pcEvents.run = "first"
                        THEN [days |-> aggregated_browser_days', events |-> events']
                        ELSE first_run
    /\ UNCHANGED <<cur_date, commerce_file>>
    /\ UNCHANGED <<alignVars, loadVars, buildVars, splitVars, encodeVars,
                   dummyVars, normVars, outcomeVars, retainVars, predictVars, fillVars>>

(***************************************************************************)
(* Outcome filling: lines 451-463 of create_feature_frame.  The recoding   *)
(* of categories and the normalization of the same method are the          *)
(* CategoryEncoder and the Normalizer above; they leave outcome, the rows  *)
(* and days_active_count alone.                                            *)
(***************************************************************************)
\* Most rows of a frame whose outcomes are filled.
MaxFillRows == 3

OutcomeValues == {"no_conversion", "conversion"}

FillColumns == <<"browser_id", "date", "outcome", "days_active_count">>

\* The frames get_user_profiles_by_date hands over: one row per browser and
\* date, the browsers in any order, some outcomes missing.  The date of a
\* row is its position, so that no browser has two rows of one date.
FillFrames ==
    {[cols |-> FillColumns,
      rows |-> [i \in DOMAIN rows |->
                    [browser_id |-> rows[i].browser_id, date |-> i,
                     outcome |-> rows[i].outcome,
                     days_active_count |-> rows[i].days_active_count]]] :
        rows \in UNION {[1..n -> [browser_id : Browsers,
                                  outcome : OutcomeValues \cup {Null},
                                  days_active_count : {0, 1}]] : n \in 1..MaxFillRows}}

\* fillna(method='bfill') on the whole column, the groups ignored.
bfill_ungrouped(values, keys, i) ==
    LET later == {j \in DOMAIN values : j > i /\ values[j] # Null}
    IN  IF values[i] # Null THEN values[i]
        ELSE IF later = {} THEN Null
        ELSE values[CHOOSE j \in later : \A k \in later : j <= k]

\* groupby('browser_id')['outcome'].fillna(method='bfill'), at row i
groupby_bfill(values, keys, i) ==
    LET later == {j \in DOMAIN values : j > i /\ keys[j] = keys[i] /\ values[j] # Null}
    IN  IF values[i] # Null THEN values[i]
        ELSE IF later = {} THEN Null
        ELSE values[CHOOSE j \in later : \A k \in later : j <= k]

\* groupby('browser_id')['outcome'].fillna(method='ffill'), at row i
groupby_ffill(values, keys, i) ==
    LET earlier == {j \in DOMAIN values : j < i /\ keys[j] = keys[i] /\ values[j] # Null}
    IN  IF values[i] # Null THEN values[i]
        ELSE IF earlier = {} THEN Null
        ELSE values[CHOOSE j \in earlier : \A k \in earlier : j >= k]

\* series.fillna(other): the missing values are taken from other, by index.
fillna(series, other) ==
    [i \in DOMAIN series |-> IF series[i] = Null THEN other[i] ELSE series[i]]

\* Lines 452-457
test_outcome(frame) ==
    LET outcome == ColumnValues(frame, "outcome")
        keys == ColumnValues(frame, "browser_id")
        backward == fillna(outcome,
                        [i \in DOMAIN outcome |-> groupby_bfill(outcome, keys, i)])
    IN  fillna(backward, [i \in DOMAIN outcome |-> groupby_ffill(outcome, keys, i)])

IdleFill == pcFill = "idle"

InitFill ==
    /\ profiles_fetched \in FillFrames
    /\ user_profiles = profiles_fetched
    /\ pcFill = "ready"
    /\ numeric_columns = InitialNumericColumns
    /\ payment_history_features = {}
    /\ ctxStatus = "none"
    /\ histStatus = "none"
    /\ pcBuild = "idle"
    /\ category_list_dict = <<>>
    /\ X_train = <<>>
    /\ pcEncode = "idle"

\* create_feature_frame, lines 452-463: the outcome column is filled and the
\* rows without an active day are dropped.
FillOutcomeAndFilter ==
    /\ pcFill = "ready"
    /\ user_profiles' =
            ActiveProfiles(SetColumn(user_profiles, "outcome", test_outcome(user_profiles)))
    /\ pcFill' = "filtered"
    /\ UNCHANGED <<profiles_fetched, category_list_dict, X_train, pcEncode>>
    /\ UNCHANGED <<numeric_columns, payment_history_features, ctxStatus,
                   histStatus, pcBuild>>
    /\ UNCHANGED <<alignVars, loadVars, splitVars, dummyVars, normVars,
                   outcomeVars, retainVars, predictVars, eventVars>>

\* The later components' variables, at rest.
IdleRest == IdleRetain /\ IdlePredict /\ IdleEvents /\ IdleFill

(***************************************************************************)
(* The specifications: one per component, the other components at rest.    *)
(***************************************************************************)
InitAlignSpec == InitAlign /\ IdleLoad /\ IdleBuild /\ IdleSplit /\ IdleEncode /\ IdleDummy /\ IdleNorm /\ IdleOutcome /\ IdleRest

NextAlign == align_prediction_frame_with_train_columns

SpecAlign == InitAlignSpec /\ [][NextAlign]_vars

InitLoadSpec == InitLoad /\ IdleAlign /\ IdleBuild /\ IdleSplit /\ IdleEncode /\ IdleDummy /\ IdleNorm /\ IdleOutcome /\ IdleRest

NextLoad ==
    \/ StartTraining
    \/ WriteArtifact
    \/ TrainingFails
    \/ load_model_related_constructs

SpecLoad == InitLoadSpec /\ [][NextLoad]_vars

InitBuildSpec == InitBuild /\ IdleAlign /\ IdleLoad /\ IdleSplit /\ IdleEncode /\ IdleDummy /\ IdleNorm /\ IdleOutcome /\ IdleRest

NextBuild ==
    \/ FetchFeatureFrame
    \/ FillMissingColumns
    \/ ContextJoinSucceeds
    \/ ContextJoinFails
    \/ HistoryJoinSucceeds
    \/ HistoryJoinFails
    \/ ValidateProfiles

SpecBuild == InitBuildSpec /\ [][NextBuild]_vars

InitSplitSpec == InitSplit /\ IdleAlign /\ IdleLoad /\ IdleEncode /\ IdleDummy /\ IdleNorm /\ IdleOutcome /\ IdleRest

NextSplit ==
    \/ SplitTimeBased
    \/ SplitRandom

SpecSplit == InitSplitSpec /\ [][NextSplit]_vars

InitEncodeSpec == InitEncode /\ IdleAlign /\ IdleLoad /\ IdleSplit /\ IdleDummy /\ IdleNorm /\ IdleOutcome /\ IdleRest

NextEncode ==
    \/ encode_uncommon_categories
    \/ FilterActiveProfiles
    \/ generate_category_list_dict
    \/ GenerateTrainingDummies

SpecEncode == InitEncodeSpec /\ [][NextEncode]_vars

InitDummySpec == InitDummy /\ IdleAlign /\ IdleLoad /\ IdleBuild /\ IdleSplit /\ IdleNorm /\ IdleOutcome /\ IdleRest

NextDummy ==
    \/ GenerateDummyColumns
    \/ GenerateDummyColumnsAgain

SpecDummy == InitDummySpec /\ [][NextDummy]_vars

InitNormSpec == InitNorm /\ IdleAlign /\ IdleLoad /\ IdleSplit /\ IdleDummy /\ IdleOutcome /\ IdleRest

NextNorm ==
    \/ StartNormalization
    \/ NormalizeColumnSet

SpecNorm == InitNormSpec /\ [][NextNorm]_vars

InitOutcomeSpec ==
    InitOutcome /\ IdleAlign /\ IdleLoad /\ IdleBuild /\ IdleSplit /\ IdleEncode
                /\ IdleDummy /\ IdleNorm /\ IdleRest

NextOutcome == CreateOutcomeFrame

SpecOutcome == InitOutcomeSpec /\ [][NextOutcome]_vars

InitRetainSpec ==
    InitRetain /\ IdleAlign /\ IdleLoad /\ IdleBuild /\ IdleSplit /\ IdleEncode
               /\ IdleDummy /\ IdleNorm /\ IdleOutcome /\ IdlePredict /\ IdleEvents /\ IdleFill

NextRetain ==
    \/ TrainingPipelineDiscards
    \/ PredictionPipelineDiscards

SpecRetain == InitRetainSpec /\ [][NextRetain]_vars

InitPredictSpec ==
    InitPredict /\ IdleLoad /\ IdleBuild /\ IdleSplit /\ IdleEncode /\ IdleDummy
                /\ IdleNorm /\ IdleOutcome /\ IdleEvents /\ IdleFill

NextPredict ==
    \/ train_model
    \/ model_training_pipeline
    \/ NewPredictionObject
    \/ batch_predict

SpecPredict == InitPredictSpec /\ [][NextPredict]_vars

InitEventsSpec ==
    InitEvents /\ IdleAlign /\ IdleLoad /\ IdleBuild /\ IdleSplit /\ IdleEncode
               /\ IdleDummy /\ IdleNorm /\ IdleOutcome /\ IdleRetain /\ IdlePredict
               /\ IdleFill

NextEvents ==
    \/ run
    \/ CommerceParser_process_file
    \/ PageViewsParser_process_file

SpecEvents == InitEventsSpec /\ [][NextEvents]_vars

InitFillSpec ==
    InitFill /\ IdleAlign /\ IdleLoad /\ IdleSplit /\ IdleDummy /\ IdleNorm
             /\ IdleOutcome /\ IdleRetain /\ IdlePredict /\ IdleEvents

NextFill == FillOutcomeAndFilter

SpecFill == InitFillSpec /\ [][NextFill]_vars

(***************************************************************************)
(* The claims.                                                             *)
(***************************************************************************)
\* C1: after align_prediction_frame_with_train_columns the prediction frame's
\* column list equals the trained column list exactly (same names, same
\* order, nothing extra, nothing missing), and the call never raises.
C1_AlignedColumnsEqualTrained ==
    /\ pcAlign # "KeyError"
    /\ pcAlign = "aligned" => ColumnsOf(prediction_data) = variable_importances

\* C1 witness: an aligned frame that kept a scoring-time column and got a
\* zero-filled trained column (the scoring frame overlapped the trained set).
C1_Witness ==
    /\ pcAlign = "aligned"
    /\ \E i, j \in DOMAIN prediction_data :
            /\ i < j
            /\ prediction_data[i].val = "zero"
            /\ prediction_data[j].val = "data"

C3_LookAheadGuard ==
    (histStatus = "ok" /\ pcBuild \in {"validate", "done", "KeyError"}) =>
        \A i \in DOMAIN user_profiles.rows :
            \A h \in payment_history_features :
                (/\ ExtractDigits(user_profiles.rows[i]["user_ids"][1]) = IntToStr(h.user_id)
                 /\ h.last_subscription_end >= user_profiles.rows[i]["date"])
                    => /\ user_profiles.rows[i]["clv"] = 0
                       /\ user_profiles.rows[i]["days_since_last_subscription"] = 1000

\* C3 witness: the join matched a record ending exactly on one row's date
\* (guarded), while another row of the same user, dated later, kept the
\* record's clv.
C3_Witness ==
    /\ histStatus = "ok"
    /\ pcBuild = "done"
    /\ \E i, j \in DOMAIN user_profiles.rows :
        \E h \in payment_history_features :
            /\ ExtractDigits(user_profiles.rows[i]["user_ids"][1]) = IntToStr(h.user_id)
            /\ h.last_subscription_end = user_profiles.rows[i]["date"]
            /\ h.clv > 0
            /\ user_profiles.rows[i]["clv"] = 0
            /\ user_profiles.rows[j]["clv"] = h.clv

\* C7: after get_user_profiles_by_date returns, the frame contains every
\* column the registry declares (return_feature_list) and every feature
\* column the frame carries is declared by the registry (any of its groups;
\* the label and the user id list are no feature columns).
C7_FrameMatchesRegistry ==
    pcBuild = "done" =>
        /\ Range(return_feature_list(numeric_columns)) \subseteq Range(user_profiles.cols)
        /\ (Range(user_profiles.cols) \ {"outcome", "user_ids"}) \subseteq
                Range(return_feature_list(numeric_columns))
                    \cup Range(numeric_columns_with_window_variants)
                    \cup Range(BOOL_COLUMNS) \cup Range(CONFIG_COLUMNS)

\* C8: when the payment-history join fails, every row gets the no-history
\* defaults clv = 0.0 and days_since_last_subscription = 1000.
C8_FailedHistoryGetsSentinel ==
    (histStatus = "failed" /\ pcBuild \in {"validate", "done"}) =>
        \A i \in DOMAIN user_profiles.rows :
            /\ user_profiles.rows[i]["clv"] = 0
            /\ user_profiles.rows[i]["days_since_last_subscription"] = 1000

\* C9: when the global-context join fails, the failure is caught, the build
\* goes on to the payment-history step, and the four contextual columns
\* (article pageviews, amount paid, payment count, average price) are in the
\* frame with 0.0 in every row.
C9_FailedContextZeroFilled ==
    ctxStatus = "failed" =>
        /\ pcBuild \in {"history", "validate", "done", "KeyError"}
        /\ \A c \in {"article_pageviews_count", "sum_paid", "payment_count", "avg_price"} :
            /\ c \in Range(user_profiles.cols)
            /\ \A i \in DOMAIN user_profiles.rows : user_profiles.rows[i][c] = 0

\* C4: with the time-based split over a contiguous date range, every row
\* assigned to the train set has a date less than or equal to the date of
\* every row assigned to the test set.
C4_TrainNotAfterTest ==
    (pcSplit = "split" /\ training_split_parameters.split = "time_based") =>
        \A i \in Range(train_indices) : \A j \in Range(test_indices) :
            user_profiles.rows[i]["date"] <= user_profiles.rows[j]["date"]

\* C4 witness: a split with rows on both sides, the frame's rows not in date
\* order (a later row is in the train set, an earlier row in the test set).
C4_Witness ==
    /\ pcSplit = "split"
    /\ training_split_parameters.split = "time_based"
    /\ \E i \in Range(train_indices) : \E j \in Range(test_indices) : j < i

\* The share of value among the non-null values of a column is below 5%.
BelowFivePercent(values, value) ==
    /\ value \in Range(values) \ {Null}
    /\ CountOf(values, value) * 100 < UncommonPercent * NonNullCount(values)

\* C5 as stated: for every categorical column of a training frame, a value
\* whose relative frequency in that column is below 5% never appears in the
\* frozen category list nor as its own dummy column.
C5_RareValueNeverListed ==
    \A column \in Range(CATEGORICAL_COLUMNS) :
        \A value \in Range(CategoryValues(column)) :
            BelowFivePercent(ColumnValues(profiles_fetched, column), value) =>
                /\ pcEncode \in {"listed", "dummies", "ValueError"} =>
                        value \notin Range(category_list_dict[column])
                /\ pcEncode = "dummies" =>
                        DummyName(column, value) \notin Range(X_train.cols)

\* C5, amended: once the device value 0 has been replaced by 'Desktop', every
\* non-null value other than 'Other' whose share of the non-null values of
\* its column in the fetched frame is below 5% is rewritten to 'Other' before
\* the category list is generated: no row carries it, the list does not hold
\* it and no dummy column is named after it.
C5_RareValueCollapsed ==
    \A column \in Range(CATEGORICAL_COLUMNS) :
        \A value \in Range(CategoryValues(column)) \ {"Other"} :
            BelowFivePercent(
                ColumnValues(DeviceZeroAsDesktop(profiles_fetched), column), value) =>
                /\ pcEncode # "fetched" =>
                        value \notin Range(ColumnValues(user_profiles, column))
                /\ pcEncode \in {"listed", "dummies", "ValueError"} =>
                        value \notin Range(category_list_dict[column])
                /\ pcEncode = "dummies" =>
                        DummyName(column, value) \notin Range(X_train.cols)

\* C5 witness: training got as far as the dummy columns on a frame in which
\* a value other than 'Other' was below 5%, and 'Other' has a dummy column.
C5_Witness ==
    /\ pcEncode = "dummies"
    /\ \E column \in Range(CATEGORICAL_COLUMNS) :
        /\ \E value \in Range(CategoryValues(column)) \ {"Other"} :
                BelowFivePercent(
                    ColumnValues(DeviceZeroAsDesktop(profiles_fetched), column), value)
        /\ "Other" \notin Range(ColumnValues(profiles_fetched, column))
        /\ DummyName(column, "Other") \in Range(X_train.cols)

\* C6: for a fixed category list, applying the Unknown-substitution to a
\* column that has already been substituted changes no value, and the dummy
\* encoding of it yields the same dummy vectors as after the first
\* substitution.
C6_EncodingIdempotent ==
    [][GenerateDummyColumnsAgain => data' = data /\ dummies' = dummies]_vars

\* C6 witness: the column was encoded twice, the first substitution rewrote
\* one value and left another as it was.
C6_Witness ==
    /\ pcDummy = "encoded_twice"
    /\ \E i, j \in DOMAIN data :
        /\ scoring_column.values[i] # data[i]
        /\ scoring_column.values[j] = data[j]
        /\ data[j] # "Unknown"

\* C10: when a categorical column is encoded against its frozen category
\* list, every value that is not in the list is rewritten to 'Unknown',
\* every value that is in the list is left unchanged, and the encoding
\* completes without error.
C10_UnseenValuesBecomeUnknown ==
    (pcDummy # "ready" /\ scoring_column.name \in DOMAIN category_list_dict) =>
        /\ pcDummy \in {"encoded", "encoded_twice"}
        /\ DOMAIN data = DOMAIN scoring_column.values
        /\ \A i \in DOMAIN data :
            data[i] =
                IF scoring_column.values[i]
                        \in Range(category_list_dict[scoring_column.name])
                    THEN scoring_column.values[i]
                    ELSE "Unknown"

\* C10 witness: an encoded column that held a value the list does not know,
\* now 'Unknown' with every dummy 0, next to a value of the list.
C10_Witness ==
    /\ pcDummy = "encoded"
    /\ \E i, j \in DOMAIN data :
        /\ scoring_column.values[i]
                \notin Range(category_list_dict[scoring_column.name])
        /\ data[i] = "Unknown"
        /\ \A name \in DOMAIN dummies.rows[i] : dummies.rows[i][name] = 0
        /\ scoring_column.values[j]
                \in Range(category_list_dict[scoring_column.name]) \ {"Unknown"}
        /\ dummies.rows[j][DummyName(scoring_column.name, data[j])] = 1

\* C11: dummy-encoding a categorical column with category list L produces
\* exactly one indicator column per category of L other than 'Unknown', named
\* {column}_{category}, in the order of L, and no {column}_Unknown column;
\* replace_dummy_columns_with_dummies then removes the original categorical
\* column from the frame.
C11_OneDummyPerCategory ==
    pcEncode = "dummies" =>
        /\ \A column \in Range(CATEGORICAL_COLUMNS) :
               LET L == category_list_dict[column]
                   At(k) == {p \in DOMAIN X_train.cols :
                               X_train.cols[p] = DummyName(column, L[k])}
               IN  /\ \A k \in DOMAIN L :
                       IF L[k] = "Unknown" THEN At(k) = {}
                                           ELSE Cardinality(At(k)) = 1
                   /\ \A k, m \in DOMAIN L :
                       (k < m /\ L[k] # "Unknown" /\ L[m] # "Unknown") =>
                           \A p \in At(k) : \A q \in At(m) : p < q
                   /\ column \notin Range(X_train.cols)
                   /\ \A i \in DOMAIN X_train.rows :
                       /\ column \notin DOMAIN X_train.rows[i]
                       /\ \A k \in DOMAIN L : L[k] # "Unknown" =>
                           X_train.rows[i][DummyName(column, L[k])] =
                               IF user_profiles.rows[i][column] = L[k] THEN 1 ELSE 0
        /\ Len(X_train.cols) =
                Len(user_profiles.cols) - Len(CATEGORICAL_COLUMNS)
                    + Len(category_list_dict["device"]) - 1
                    + Len(category_list_dict["browser"]) - 1

\* C11 witness: dummies were generated for a list of two categories and
\* 'Unknown', and for rows that carry both categories.
C11_Witness ==
    /\ pcEncode = "dummies"
    /\ \E column \in Range(CATEGORICAL_COLUMNS) :
        /\ Len(category_list_dict[column]) = 3
        /\ \E i, j \in DOMAIN X_train.rows :
            /\ X_train.rows[i][DummyName(column, category_list_dict[column][1])] = 1
            /\ X_train.rows[j][DummyName(column, category_list_dict[column][2])] = 1

\* The rearrangements of the row positions 1..n.
RowOrders(n) == {order \in [1..n -> 1..n] : \A i, j \in 1..n : order[i] = order[j] => i = j}

\* C12: for a fixed category list, permuting the rows of the input column
\* permutes the rows of the dummy output the same way and changes neither
\* the set nor the order of the dummy columns.
C12_RowOrderIndependent ==
    pcDummy = "encoded" =>
        \A order \in RowOrders(Len(scoring_column.values)) :
            LET permuted == generate_dummy_columns_from_categorical_column(
                                scoring_column.name,
                                [i \in DOMAIN scoring_column.values |->
                                    scoring_column.values[order[i]]],
                                category_list_dict[scoring_column.name])
            IN  /\ permuted.cols = dummies.cols
                /\ permuted.rows = [i \in DOMAIN dummies.rows |-> dummies.rows[order[i]]]

\* C12 witness: an encoded column whose first two rows carry two listed
\* categories in the opposite order of the list.
C12_Witness ==
    /\ pcDummy = "encoded"
    /\ Len(data) >= 2
    /\ LET L == category_list_dict[scoring_column.name]
       IN  /\ Len(L) = 3
           /\ data[1] = L[2]
           /\ data[2] = L[1]
           /\ dummies.rows[1] # dummies.rows[2]

\* C13: encoding or dummy-encoding a categorical column that has no entry in
\* the category list dict fails with a fatal error and produces no dummy
\* columns.
C13_MissingListIsFatal ==
    (pcDummy # "ready" /\ scoring_column.name \notin DOMAIN category_list_dict) =>
        /\ pcDummy = "KeyError"
        /\ dummies = <<>>
        /\ data = scoring_column.values

\* C13 witness: the call failed on a column with rows, the dict holding the
\* list of another column only.
C13_Witness ==
    /\ pcDummy = "KeyError"
    /\ scoring_column.values # <<>>
    /\ DOMAIN category_list_dict # {}
    /\ scoring_column.name \notin DOMAIN category_list_dict

\* C14: for each of the four artifact kinds, load_model_related_constructs
\* resolves the file of that kind whose embedded date has the smallest
\* absolute distance in days to the scoring date, among all files of that
\* kind in the model directory.
C14_ClosestFileResolved ==
    loadStatus \in {"loaded", "ValueError"} =>
        \A kind \in Range(ArtifactKinds) :
            /\ \E f \in model_files :
                    f.kind = kind /\ f.date = last_model_related_files[kind]
            /\ \A f \in model_files : f.kind = kind =>
                    AbsDiff(last_model_related_files[kind], scoring_date)
                        <= AbsDiff(f.date, scoring_date)

\* C14 witness: a load that resolved, for some kind, a file that is closest
\* to the scoring date and not the latest of its kind.
C14_Witness ==
    /\ loadStatus = "loaded"
    /\ \E f \in model_files :
        /\ f.date > last_model_related_files[f.kind]
        /\ AbsDiff(f.date, scoring_date)
                > AbsDiff(last_model_related_files[f.kind], scoring_date)

\* C15: after a successful model_training_pipeline run, the four artifact
\* files category_lists, scaler, model and variable_importances all exist
\* and all carry the same model date in their names, that date being the
\* maximum date in the training frame plus one day.
C15_FourFilesOfModelDate ==
    pcTrain = "done" =>
        \A kind \in Range(ArtifactKinds) :
            \E f \in model_files :
                /\ f.kind = kind
                /\ f.run = runs
                /\ f.date = model_date
                /\ \A i \in DOMAIN user_profiles.rows :
                        user_profiles.rows[i]["date"] + 1 <= f.date
                /\ \E i \in DOMAIN user_profiles.rows :
                        user_profiles.rows[i]["date"] + 1 = f.date

\* C15 witness: a second run completed on a window of several days, next to
\* the files of an earlier run for another date.
C15_Witness ==
    /\ pcTrain = "done"
    /\ runs = 2
    /\ Len(user_profiles.rows) > 1
    /\ \E f \in model_files : f.date # model_date

\* C16: with the time-based split and ratio r, the train cutoff is the
\* latest of the earliest r-fraction of the sorted distinct dates in range;
\* every row dated on or before the cutoff is in the train set and every
\* remaining row is in the test set.
C16_CutoffSplitsRows ==
    (pcSplit = "split" /\ training_split_parameters.split = "time_based") =>
        LET days == max_date - min_date + 1
            share == RoundedShare(days, training_split_parameters.split_ratio)
            earliest == {min_date + i - 1 : i \in 1..(IF share < days THEN share ELSE days)}
            OnOrBeforeCutoff(i) ==
                \E cutoff \in earliest :
                    /\ \A d \in earliest : d <= cutoff
                    /\ user_profiles.rows[i]["date"] <= cutoff
        IN  /\ Range(train_indices) =
                    {i \in DOMAIN user_profiles.rows : OnOrBeforeCutoff(i)}
            /\ Range(test_indices) =
                    {i \in DOMAIN user_profiles.rows : ~OnOrBeforeCutoff(i)}

\* C17: for both split kinds (random and time-based), the train and test
\* index sets are disjoint and together contain every row of the
\* user-profile frame.
C17_SplitPartitionsRows ==
    pcSplit = "split" =>
        /\ Range(train_indices) \cap Range(test_indices) = {}
        /\ Range(train_indices) \cup Range(test_indices) = DOMAIN user_profiles.rows

\* C18: under normalization policy ADD, the raw columns of every normalized
\* group are kept and the normalized columns are appended under distinct
\* suffixed names (no two columns of the resulting frame share a name), and
\* the suffixed names are registered in the column registry.
C18_AddKeepsRawAndAppendsSuffixed ==
    (normalization_handling = "ADD" /\ pcNorm \notin {"ready", "loop"}) =>
        /\ pcNorm = "done"
        /\ \A i, j \in DOMAIN user_profiles :
                user_profiles[i].name = user_profiles[j].name => i = j
        /\ \A k \in DOMAIN ColumnSets : \A c \in Range(ColumnSets[k]) :
            /\ \E i \in DOMAIN user_profiles :
                    user_profiles[i].name = c /\ user_profiles[i].val # "normalized"
            /\ \E i \in DOMAIN user_profiles :
                    /\ user_profiles[i].name = NormalizedName(c)
                    /\ user_profiles[i].val = "normalized"
        /\ \A c \in Range(profile_numeric_columns_from_json_fields) :
                \E v \in Range(window_variants) :
                    v \in Range(create_window_variant_permuations(<<NormalizedName(c)>>))

\* C19: a normalization policy value other than REPLACE, ADD or IGNORE is a
\* fatal configuration error: the normalization step raises instead of
\* producing a frame, while policy IGNORE skips normalization entirely and
\* leaves the frame's columns and values as they were.
C19_UnknownHandlingRaisesIgnoreSkips ==
    /\ (normalization_handling = "unknown" /\ pcNorm \notin {"ready", "loop"}) =>
            pcNorm \in {"ValueError", "KeyError", "AttributeError"}
    /\ (normalization_handling = "IGNORE" /\ pcNorm # "ready") =>
            /\ pcNorm = "skipped"
            /\ user_profiles = profiles_fetched
            /\ window_variants = numeric_columns_with_window_variants

\* C19 witness: the loop raised ValueError for the unknown handling, on a
\* frame that holds the columns of the first column set.
C19_Witness ==
    /\ normalization_handling = "unknown"
    /\ pcNorm = "ValueError"
    /\ \E i \in DOMAIN user_profiles : user_profiles[i].val = "float"

\* C20: create_outcome_frame returns a frame with exactly the rows precision,
\* recall, f-score, support and exactly one column named {label}_{set_name}
\* for every outcome label and every provided set name, labels in
\* label-encoder order within each set; it raises an error when the actual
\* and predicted dictionaries do not have the same set names.
C20_OutcomeFrameRowsAndColumns ==
    pcOutcome \notin {"idle", "ready"} =>
        IF Range(labels_actual) # Range(labels_predicted)
            THEN pcOutcome = "ValueError"
            ELSE LET classes == classes_(outcome_labels)
                     ColumnsNamed(l, set) ==
                        {p \in DOMAIN outcome_frame.columns :
                            outcome_frame.columns[p] = classes[l] \o <<"_" \o set>>}
                 IN  /\ pcOutcome = "done"
                     /\ outcome_frame.index = OutcomeIndex
                     /\ Len(outcome_frame.columns) = Len(labels_actual) * Len(classes)
                     /\ \A set \in Range(labels_actual) : \A l \in DOMAIN classes :
                            /\ Cardinality(ColumnsNamed(l, set)) = 1
                            /\ \A m \in DOMAIN classes : \A p \in ColumnsNamed(l, set) :
                               \A q \in ColumnsNamed(m, set) : l < m => p < q

\* C26: the retention policy governs every discard: an artifact listed in
\* the artifacts-to-retain collection is never discarded by the training or
\* the prediction pipeline; an artifact not listed is written to disk before
\* it is discarded when the retention mode is DUMP, and discarded without
\* any file being written when the mode is DROP.
C26_RetentionGovernsDiscards ==
    [][\A artifact \in attributes \ attributes' :
            /\ artifact \notin artifacts_to_retain
            /\ artifact_retention_mode = "DUMP" => artifact \in dumped'
            /\ artifact_retention_mode = "DROP" => artifact \notin dumped']_vars

\* C21: variable importances are best-effort: when the fitted classifier
\* exposes no feature importances, train_model still completes, with an
\* empty variable-importances result rather than an error.
C21_ImportancesBestEffort ==
    (~HasFeatureImportances(model_function) /\ pcPredict \notin {"idle", "ready"}) =>
        /\ pcPredict # "TrainingError"
        /\ model.state # "none" \/ pcPredict = "fresh"
        /\ pcPredict \in {"trained", "saved"} => variable_importances = <<>>

\* C21 witness: train_model has fitted a classifier without feature
\* importances and returned.
C21_Witness ==
    /\ model_function = "LogisticRegression"
    /\ pcPredict = "trained"
    /\ model.state = "fitted"
    /\ variable_importances = <<>>

\* C22: on every path through the prediction pipeline, column alignment
\* against the trained column set is performed before each call that asks
\* the classifier for predictions (predict_proba and predict), and the frame
\* passed to the classifier is the aligned one.
C22_ClassifierGetsAlignedFrame ==
    \A i \in DOMAIN classifier_calls :
        /\ aligned_frame = AlignedFrame(aligned_frame, model.columns)
        /\ classifier_calls[i].frame = aligned_frame

\* C30: the column list used for alignment at scoring time (the index of the
\* persisted variable importances) always equals, in names and order, the
\* column list of the training matrix the loaded classifier was fitted on,
\* for every classifier type the trainer accepts, including classifiers that
\* expose no feature importances.
C30_ImportancesIndexIsTrainedColumns ==
    /\ importances_csv.written => importances_csv.index = model_pkl.columns
    /\ pcPredict = "predicted" => variable_importances = model.columns

\* A payment of the file on a browser and a purchase of the same user that
\* follows it within 5 minutes.
PaymentThenPurchase(file, i, j) ==
    /\ file[i].step = "payment"
    /\ file[j].step = "purchase"
    /\ file[i].user_id = file[j].user_id
    /\ file[i].browser_id # ""
    /\ file[i].time <= file[j].time
    /\ file[j].time <= file[i].time + PaymentMinutes

\* The payment is the user's last one before the purchase.
LastPaymentBefore(file, i, j) ==
    \A r \in DOMAIN file :
        (/\ file[r].step = "payment"
         /\ file[r].user_id = file[i].user_id
         /\ file[r].browser_id # ""
         /\ file[r].time <= file[j].time) => file[r].time <= file[i].time

\* C23: when the events of day D contain a payment event of a user on a
\* browser followed within 5 minutes by a purchase event of the same user,
\* that browser is labeled 'conversion' on day D and the preceding 7 days are
\* marked 'conversion' as well.
C23_PaymentThenPurchaseLabelsDayAndBefore ==
    (pcEvents.run \in {"first", "again"} /\ pcEvents.step \in {"pageviews", "done"}) =>
        \A i, j \in DOMAIN commerce_file :
            PaymentThenPurchase(commerce_file, i, j) =>
                \A d \in Days :
                    (cur_date - LabelledDays <= d /\ d <= cur_date) =>
                        aggregated_browser_days[<<commerce_file[i].browser_id, d>>].event
                            = "conversion"

\* C23, amended: when the events of day D contain a purchase of a user within
\* 5 minutes after that user's last payment event on a browser, processing
\* the commerce file deletes that browser's row of day D and labels
\* 'conversion' every row of the browser on the 7 preceding days that was
\* still 'no_conversion'; processing the page views afterwards leaves the
\* rows labeled 'conversion' on other days as they are.
C23_PurchaseDeletesDayAndLabelsBefore ==
    [][/\ (pcEvents.step = "commerce" /\ pcEvents.run \in {"first", "again"}) =>
            \A i, j \in DOMAIN commerce_file' :
                (/\ PaymentThenPurchase(commerce_file', i, j)
                 /\ LastPaymentBefore(commerce_file', i, j)) =>
                    LET b == commerce_file'[i].browser_id
                    IN  /\ aggregated_browser_days'[<<b, cur_date>>].event = "absent"
                        /\ \A d \in Days :
                            (/\ cur_date - LabelledDays <= d
                             /\ d < cur_date
                             /\ aggregated_browser_days[<<b, d>>].event = "no_conversion")
                            => aggregated_browser_days'[<<b, d>>].event = "conversion"
       /\ pcEvents.step = "pageviews" =>
            \A k \in DOMAIN aggregated_browser_days :
                (aggregated_browser_days[k].event = "conversion" /\ k[2] # cur_date)
                => aggregated_browser_days'[k] = aggregated_browser_days[k]]_vars

\* C23 witness: the commerce file of the run held a payment on a browser and
\* the user's purchase within 5 minutes; the browser's row of the day is gone
\* and the row seven days before carries the label of this run.
C23_Witness ==
    /\ pcEvents = [run |-> "first", step |-> "pageviews"]
    /\ cur_date >= LabelledDays
    /\ \E i, j \in DOMAIN commerce_file :
        /\ PaymentThenPurchase(commerce_file, i, j)
        /\ LastPaymentBefore(commerce_file, i, j)
        /\ aggregated_browser_days[<<commerce_file[i].browser_id, cur_date>>].event = "absent"
        /\ aggregated_browser_days[<<commerce_file[i].browser_id, cur_date - LabelledDays>>]
                = [event |-> "conversion", time |-> <<cur_date, commerce_file[j].time>>]

\* C24: every (browser_id, date) row carries exactly one outcome label,
\* determined by the first matching event after that day: once a row's label
\* has been changed from no_conversion to conversion or
\* shared_account_login, no later event and no later day's processing
\* changes it again, and an event of day D never labels day D itself or any
\* day after D.
C24_LabelByFirstEventSetOnce ==
    [][/\ \A k \in DOMAIN aggregated_browser_days :
            LET row == aggregated_browser_days[k]
                new == aggregated_browser_days'[k]
            IN  /\ new.event \in {"absent", "no_conversion", "conversion",
                                  "shared_account_login"}
                /\ (row.event \in {"conversion", "shared_account_login"}
                        /\ new.event # "absent") => new = row
                /\ (new # row /\ new.event # "absent") =>
                        /\ row.event = "no_conversion"
                        /\ k[2] < cur_date
                        /\ new.time[1] = cur_date
       /\ pcEvents'.step = "done" =>
            \A k \in DOMAIN aggregated_browser_days : \A e \in DOMAIN events' :
                (/\ aggregated_browser_days'[k].event \in {"conversion", "shared_account_login"}
                 /\ aggregated_browser_days'[k].time[1] = cur_date
                 /\ e.browser_id = k[1]
                 /\ e.time[1] = cur_date
                 /\ \A f \in DOMAIN events' :
                        (f.browser_id = k[1] /\ f.time[1] = cur_date)
                            => e.time[2] <= f.time[2])
                => \E f \in DOMAIN events' :
                        /\ f.browser_id = k[1]
                        /\ f.time = e.time
                        /\ f.type = aggregated_browser_days'[k].event]_vars

\* C25: processing the event files of a date is safely repeatable: running
\* run(date) twice in a row on the same input files leaves the events table
\* and the aggregated_browser_days labels in the same state as running it
\* once (no duplicated events, no changed labels).
C25_RunIsRepeatable ==
    pcEvents = [run |-> "again", step |-> "done"] =>
        /\ events = first_run.events
        /\ aggregated_browser_days = first_run.days

\* C25 witness: the repeated run has finished; it found a conversion and a
\* login in its files, both stored once in the events table.
C25_Witness ==
    /\ pcEvents = [run |-> "again", step |-> "done"]
    /\ \E e, f \in DOMAIN events :
        /\ e.type = "conversion" /\ e.time[1] = cur_date /\ events[e] = 1
        /\ f.type = "shared_account_login" /\ f.time[1] = cur_date /\ events[f] = 1
    /\ \E k \in DOMAIN aggregated_browser_days :
            aggregated_browser_days[k].event = "conversion"

\* The row of the fetched frame a row of the result comes from.
FetchedRowOf(row) ==
    CHOOSE i \in DOMAIN profiles_fetched.rows :
        /\ profiles_fetched.rows[i].browser_id = row.browser_id
        /\ profiles_fetched.rows[i].date = row.date

\* The rows of the fetched frame of the browser of row i that have an outcome.
SameBrowserWithOutcome(i) ==
    {j \in DOMAIN profiles_fetched.rows :
        /\ profiles_fetched.rows[j].browser_id = profiles_fetched.rows[i].browser_id
        /\ profiles_fetched.rows[j].outcome # Null}

\* C27: outcome filling in create_feature_frame stays within one browser: a
\* row with a missing outcome receives the outcome of the next row of the
\* same browser that has one, otherwise of the previous such row of the same
\* browser, and never an outcome taken from a different browser; rows that
\* already have an outcome keep it, and every row of the returned frame has
\* days_active_count >= 1.
C27_OutcomeFilledWithinBrowser ==
    pcFill = "filtered" =>
        \A r \in DOMAIN user_profiles.rows :
            LET row == user_profiles.rows[r]
                i == FetchedRowOf(row)
                fetched == profiles_fetched.rows[i].outcome
                next == {j \in SameBrowserWithOutcome(i) : j > i}
                previous == {j \in SameBrowserWithOutcome(i) : j < i}
            IN  /\ row.days_active_count >= 1
                /\ fetched # Null => row.outcome = fetched
                /\ (fetched = Null /\ next # {}) =>
                        \E j \in next :
                            /\ \A k \in next : j <= k
                            /\ row.outcome = profiles_fetched.rows[j].outcome
                /\ (fetched = Null /\ next = {} /\ previous # {}) =>
                        \E j \in previous :
                            /\ \A k \in previous : j >= k
                            /\ row.outcome = profiles_fetched.rows[j].outcome
                /\ (fetched = Null /\ next = {} /\ previous = {}) => row.outcome = Null

\* C27 witness: a kept row had no outcome, the row after it belongs to
\* another browser and has a different outcome than the next row of its own
\* browser, whose outcome it received.
C27_Witness ==
    /\ pcFill = "filtered"
    /\ \E r \in DOMAIN user_profiles.rows :
        LET i == FetchedRowOf(user_profiles.rows[r])
        IN  /\ profiles_fetched.rows[i].outcome = Null
            /\ i + 2 \in DOMAIN profiles_fetched.rows
            /\ profiles_fetched.rows[i + 1].browser_id # user_profiles.rows[r].browser_id
            /\ profiles_fetched.rows[i + 1].outcome = "no_conversion"
            /\ profiles_fetched.rows[i + 2].browser_id = user_profiles.rows[r].browser_id
            /\ profiles_fetched.rows[i + 2].outcome = "conversion"
            /\ user_profiles.rows[r].outcome = "conversion"

\* C28: for any sequence of training runs, including a run that is
\* interrupted after writing some but not all of its artifact files and a
\* re-run for a date that already has artifacts, a subsequent successful load
\* never returns a bundle whose category list, scaler, model and variable
\* importances were produced by different training runs.
C28_LoadedBundleIsOfOneRun ==
    (loadStatus = "loaded" /\ pcTrain \in {"idle", "done", "failed"}) =>
        \A k1, k2 \in Range(ArtifactKinds) : loaded[k1].run = loaded[k2].run

\* Every date present in the model directory has all four artifact files.
OnlyCompleteBundles ==
    /\ model_files # {}
    /\ \A f \in model_files : \A kind \in Range(ArtifactKinds) :
            \E g \in model_files : g.kind = kind /\ g.date = f.date

\* C29: if every date present in the model directory has all four artifact
\* files, load_model_related_constructs succeeds for every scoring date,
\* including one equally distant from two stored bundle dates: all four
\* kinds resolve to the same one of the two dates, whatever the order of the
\* directory listing.
C29_CompleteBundlesAlwaysLoad ==
    (loadStatus # "none" /\ OnlyCompleteBundles) =>
        /\ loadStatus = "loaded"
        /\ \A k1, k2 \in Range(ArtifactKinds) :
                last_model_related_files[k1] = last_model_related_files[k2]

====
